---- MODULE Spec2Model ----
(***************************************************************************)
(* Stock reorder engine of backend/reorder_service.py.                     *)
(*                                                                         *)
(* The specifications of this module:                                      *)
(*   Spec       one run of run_reorder_analysis, stepped at its awaits:    *)
(*              the catalog, the open purchase orders, the two sales       *)
(*              windows, one analysis per item, then group_by_supplier.    *)
(*   SpecRepeat the same run and its report, made twice on fixed answers.  *)
(*   SpecFn     single calls of the pure functions (detect_anomalies,      *)
(*              calculate_suggested_qty, analyze_sku, analyze_sku_quick,   *)
(*              get_open_po_quantities) on inputs drawn from bounded sets. *)
(*   SpecSales  one call of get_sales_velocity_data, stepped at the        *)
(*              fetches of its batches.                                    *)
(*   SpecImage  concurrent calls of zoho_api.get_item_image.               *)
(*   SpecItems  concurrent calls of zoho_api.get_all_items_cached.         *)
(*                                                                         *)
(* Representation.  Python floats are modelled as exact rationals <<n, d>> *)
(* with d > 0.  round(x, 1) yields a whole number of tenths and            *)
(* round(x, 2) a whole number of hundredths; at an exact decimal tie the   *)
(* binary float lies on either side of it, so a tie resolves either way    *)
(* (the `up` argument of Round).  Text is a tuple of one-character         *)
(* strings so that lower() and the substring test `in` are computed;       *)
(* "a_uml"/"A_uml" stand for the a-umlaut characters.  Prices are whole    *)
(* EUR amounts.                                                            *)
(*                                                                         *)
(* In Spec the caller formats the result with format_analysis_report.  In  *)
(* SpecRepeat the answers of the collaborators are fixed beforehand        *)
(* (inputs) and the caller repeats run and report once.  history and       *)
(* first_run record what happened; the program does not read them.         *)
(***************************************************************************)
EXTENDS Integers, Sequences, FiniteSets, TLC

VARIABLES
    pc,                       \* position of run_reorder_analysis
    quick_mode,               \* argument quick_mode
    brand_filter,             \* argument brand_filter (<<>> models None / empty)
    all_items,                \* local all_items (the catalog, then filtered)
    po_quantities,            \* local po_quantities
    velocity_data_last_year,  \* local velocity_data_last_year
    velocity_data_90_day,     \* local velocity_data_90_day
    idx,                      \* number of items the analysis loop has consumed
    analyses,                 \* local analyses (the SKUAnalysis objects)
    supplier_orders,          \* the returned dict supplier -> SupplierOrder
    raised,                   \* the exception that left run_reorder_analysis, or "none"
    report,                   \* the caller's result of format_analysis_report
    history,                  \* what the current run has called and caught so far
    inputs,                   \* SpecRepeat: what the collaborators answer in every run
    first_run,                \* the analyses and the report of the first run
    call,                     \* SpecFn: the last pure-function call and its result
    sales_pc,                 \* SpecSales: position of get_sales_velocity_data
    listing,                  \* what get_all_invoices and get_invoice answer
    invoice_ids,              \* local invoice_ids
    batch_at,                 \* the loop variable i of the batch loop
    in_flight,                \* the fetches of asyncio.gather that have not finished
    batch_results,            \* results of the finished fetches of the batch
    all_line_items,           \* local all_line_items
    velocity_data,            \* local velocity_data, the returned dict
    image_calls,              \* SpecImage: calls of get_item_image made so far
    awaiting,                 \* calls awaiting get_all_items_cached or the semaphore
    fetching,                 \* calls that hold the semaphore and await the document
    image_cache,              \* the keys of _image_cache
    image_cache_order,        \* _image_cache_order
    no_image_cache,           \* _no_image_cache
    all_items_cache,          \* SpecItems: _all_items_cache (items, cached_at)
    cache_lock,               \* _cache_lock: whether it is held, and who waits for it
    callers,                  \* the calls of get_all_items_cached of the burst
    clock,                    \* datetime.now(), in minutes
    waits,                    \* bursts that are over
    refreshes,                \* refreshes started in the burst
    failures,                 \* refreshes of the burst that get_items ended by raising
    empty_stores              \* refreshes of the burst that stored an empty catalog

\* the variables of get_sales_velocity_data
salesVars == <<sales_pc, listing, invoice_ids, batch_at, in_flight, batch_results,
               all_line_items, velocity_data>>

\* the variables of get_item_image
imageVars == <<image_calls, awaiting, fetching, image_cache, image_cache_order,
               no_image_cache>>

\* the variables of get_all_items_cached
itemsVars == <<all_items_cache, cache_lock, callers, clock, waits, refreshes, failures,
               empty_stores>>

\* the variables of the collaborators
zohoVars == <<salesVars, imageVars, itemsVars>>

\* the variables of the engine
engineVars == <<pc, quick_mode, brand_filter, all_items, po_quantities,
                velocity_data_last_year, velocity_data_90_day, idx, analyses,
                supplier_orders, raised, report, history, inputs, first_run, call>>

vars == <<engineVars, zohoVars>>

runVars == <<pc, quick_mode, brand_filter, all_items, po_quantities,
             velocity_data_last_year, velocity_data_90_day, idx, analyses,
             supplier_orders, raised, report, history, inputs, first_run, zohoVars>>

(***************************************************************************)
(* Bounds of the model.                                                    *)
(***************************************************************************)
MaxItems == 2        \* items in a catalog (Spec)
MaxStock == 3        \* stock_on_hand ranges over 0..MaxStock plus the spec's examples
MaxCommitted == 2    \* committed stock ranges over 0..MaxCommitted
MaxPO == 2           \* open purchase order quantity of a SKU
MaxTotal == 3        \* aggregate sales total of a window
MaxWeeks == 4        \* weeks in a fine-grained weekly series
MaxVelNum == 3       \* numerator of a velocity handed to calculate_suggested_qty
MaxOrders == 2       \* purchase orders on a page of the listing
MaxInvoices == 4     \* invoices in the listing of a sales window
BatchSize == 2       \* invoices fetched at once: batch_size, 20 in the code (line 307)
MaxCalls == 5        \* calls of get_item_image
ImageCacheMax == 2   \* images kept: IMAGE_CACHE_MAX_COUNT, 100 in the code (zoho_api line 77)
ImagePermits == 2    \* image requests at once: _image_request_semaphore, 5 in the code (line 85)
MaxCallers == 3      \* calls of get_all_items_cached in a burst
MaxPages == 2        \* pages of the catalog
MaxWaits == 1        \* bursts that follow the first

\* ALL_ITEMS_CACHE_TTL, zoho_api line 20, in minutes
ALL_ITEMS_CACHE_TTL == 30

\* the None of _all_items_cache["items"] and of _all_items_cache["cached_at"]
NoItems == <<"None">>
NoTime == -1

\* the item ids asked for
ImageIds == 0..(ImageCacheMax + 2)

(***************************************************************************)
(* Program constants.                                                      *)
(***************************************************************************)
MIN_COVER_WEEKS == 5
TOPUP_MAX_WEEKS == 12
ANOMALY_MULTIPLIER == 3

NORMAL == "normal"
NEW_PRODUCT == "new"
ANOMALY == "anomaly"
NO_SALES == "no_sales"

SUPPLIER_MINIMUMS ==
  << <<<<"R", "a_uml", "d", "e", "r">>, 5000>>,
     <<<<"R", "a", "e", "d", "e", "r">>, 5000>>,
     <<<<"r", "a_uml", "d", "e", "r">>, 5000>>,
     <<<<"R", "e", "l", "a", "x", "o", "u", "n", "d">>, 5000>>,
     <<<<"I", "d", "e", "a", "s", "4", "S", "e", "a", "s", "o", "n", "s">>, 2500>>,
     <<<<"M", "y", " ", "F", "l", "a", "m", "e">>, 2500>>,
     <<<<"M", "y", " ", "F", "l", "a", "m", "e", " ", "L", "i", "f", "e", "s", "t", "y", "l", "e">>, 2500>>,
     <<<<"P", "P", "D">>, 500>>,
     <<<<"P", "a", "p", "e", "r", " ", "P", "r", "o", "d", "u", "c", "t", "s", " ", "D", "e", "s", "i", "g", "n">>, 500>>,
     <<<<"E", "l", "v", "a", "n", "g">>, 500>> >>

(***************************************************************************)
(* Arithmetic on rationals <<n, d>>, d > 0.                                *)
(***************************************************************************)
Max(a, b) == IF a >= b THEN a ELSE b

\* floor(n / d) for d > 0
FloorDiv(n, d) == IF n >= 0 THEN n \div d ELSE -(((-n) + d - 1) \div d)

\* Python int(x) of x = n/d: truncation toward zero
Trunc(n, d) == IF n >= 0 THEN n \div d ELSE -((-n) \div d)

\* Python round(): the nearest whole number to n/d; at an exact tie either
\* neighbour (up = TRUE the larger, up = FALSE the smaller)
Round(n, d, up) ==
    LET q == FloorDiv(2 * n + d, 2 * d)
        tie == (2 * n + d) % (2 * d) = 0
    IN  IF tie /\ ~up THEN q - 1 ELSE q

RECURSIVE SumSeq(_)
SumSeq(s) == IF s = <<>> THEN 0 ELSE Head(s) + SumSeq(Tail(s))

(***************************************************************************)
(* Text: lower() and the substring test.                                   *)
(***************************************************************************)
UpperChars == <<"A", "B", "C", "D", "E", "F", "G", "H", "I", "J", "K", "L", "M",
                "N", "O", "P", "Q", "R", "S", "T", "U", "V", "W", "X", "Y", "Z", "A_uml">>
LowerChars == <<"a", "b", "c", "d", "e", "f", "g", "h", "i", "j", "k", "l", "m",
                "n", "o", "p", "q", "r", "s", "t", "u", "v", "w", "x", "y", "z", "a_uml">>

LowerChar(c) ==
    IF \E i \in 1..Len(UpperChars) : UpperChars[i] = c
    THEN LowerChars[CHOOSE i \in 1..Len(UpperChars) : UpperChars[i] = c]
    ELSE c

\* str.lower()
Lower(s) == [i \in 1..Len(s) |-> LowerChar(s[i])]

\* Python `k in s` on strings
IsSubstring(k, s) ==
    \E i \in 0..(Len(s) - Len(k)) : SubSeq(s, i + 1, i + Len(k)) = k

Unknown == <<"U", "n", "k", "n", "o", "w", "n">>

\* get_supplier_minimum: exact key first, then the first key (in dict order)
\* containing or contained in the name, ignoring case; 500 otherwise
get_supplier_minimum(supplier_name) ==
    LET exact == {i \in 1..Len(SUPPLIER_MINIMUMS) : SUPPLIER_MINIMUMS[i][1] = supplier_name}
        supplier_lower == Lower(supplier_name)
        partial == {i \in 1..Len(SUPPLIER_MINIMUMS) :
                       \/ IsSubstring(Lower(SUPPLIER_MINIMUMS[i][1]), supplier_lower)
                       \/ IsSubstring(supplier_lower, Lower(SUPPLIER_MINIMUMS[i][1]))}
        first(S) == CHOOSE i \in S : \A j \in S : i <= j
    IN  IF exact # {} THEN SUPPLIER_MINIMUMS[first(exact)][2]
        ELSE IF partial # {} THEN SUPPLIER_MINIMUMS[first(partial)][2]
        ELSE 500

mappings ==
  << <<<<"r", "a_uml", "d", "e", "r">>, <<"R", "a_uml", "d", "e", "r">>>>,
     <<<<"r", "a", "e", "d", "e", "r">>, <<"R", "a_uml", "d", "e", "r">>>>,
     <<<<"r", "a", "d", "e", "r">>, <<"R", "a_uml", "d", "e", "r">>>>,
     <<<<"p", "p", "d">>, <<"P", "P", "D">>>>,
     <<<<"p", "a", "p", "e", "r", " ", "p", "r", "o", "d", "u", "c", "t", "s", " ", "d", "e", "s", "i", "g", "n">>, <<"P", "P", "D">>>>,
     <<<<"m", "y", " ", "f", "l", "a", "m", "e">>, <<"M", "y", " ", "F", "l", "a", "m", "e">>>>,
     <<<<"m", "y", " ", "f", "l", "a", "m", "e", " ", "l", "i", "f", "e", "s", "t", "y", "l", "e">>, <<"M", "y", " ", "F", "l", "a", "m", "e">>>>,
     <<<<"i", "d", "e", "a", "s", "4", "s", "e", "a", "s", "o", "n", "s">>, <<"I", "d", "e", "a", "s", "4", "S", "e", "a", "s", "o", "n", "s">>>>,
     <<<<"r", "e", "l", "a", "x", "o", "u", "n", "d">>, <<"R", "e", "l", "a", "x", "o", "u", "n", "d">>>>,
     <<<<"e", "l", "v", "a", "n", "g">>, <<"E", "l", "v", "a", "n", "g">>>>,
     <<<<"g", "e", "f", "u">>, <<"G", "E", "F", "U">>>>,
     <<<<"r", "e", "m", "e", "m", "b", "e", "r">>, <<"R", "e", "m", "e", "m", "b", "e", "r">>>> >>

\* a variant that compares without lower()
map_brand_to_supplier_CaseSensitive(brand) ==
    LET hits == {i \in 1..Len(mappings) : IsSubstring(mappings[i][1], brand)}
    IN  IF hits # {} THEN mappings[CHOOSE i \in hits : \A j \in hits : i <= j][2]
        ELSE IF brand # <<>> THEN brand
        ELSE Unknown

\* map_brand_to_supplier: the first mapping key contained in brand.lower(),
\* else the brand itself, else "Unknown"
map_brand_to_supplier(brand) ==
    LET brand_lower == Lower(brand)
        hits == {i \in 1..Len(mappings) : IsSubstring(mappings[i][1], brand_lower)}
    IN  IF hits # {} THEN mappings[CHOOSE i \in hits : \A j \in hits : i <= j][2]
        ELSE IF brand # <<>> THEN brand
        ELSE Unknown

(***************************************************************************)
(* Values.  A WeeklySales entry is {"total": n} (Aggregate) or a mapping   *)
(* week -> quantity (WeeklySeries); qty is list(entry.values()) and the    *)
(* keys of a series are its indices 1..Len(qty).  A dict is a function on  *)
(* the set of its keys.                                                    *)
(***************************************************************************)
Aggregate(n) == [form |-> "total", qty |-> <<n>>]
WeeklySeries(s) == [form |-> "weekly", qty |-> s]

EmptyDict == <<>>

\* what an analyzer yields besides a SKUAnalysis: None, or an exception
None == [kind |-> "None"]
Raised == [kind |-> "TypeError"]

\* a variant whose average runs over all weeks, the zero weeks included
detect_anomalies_MeanOverAllWeeks(weekly_sales) ==
    LET values == weekly_sales.qty
    IN  IF Len(values) = 0 \/ \A i \in 1..Len(values) : values[i] = 0
        THEN <<FALSE, <<>>>>
        ELSE LET average == <<SumSeq(values), Len(values)>>
                 threshold == <<average[1] * ANOMALY_MULTIPLIER, average[2]>>
                 weeks == [i \in 1..Len(values) |-> i]
                 anomaly_weeks ==
                     SelectSeq(weeks, LAMBDA w : values[w] * threshold[2] > threshold[1])
             IN  <<Len(anomaly_weeks) > 0, anomaly_weeks>>

\* detect_anomalies: <<has_anomaly, anomaly_weeks>>
detect_anomalies(weekly_sales) ==
    LET values == weekly_sales.qty
        non_zero == SelectSeq(values, LAMBDA v : v > 0)
    IN  IF Len(values) = 0 \/ \A i \in 1..Len(values) : values[i] = 0
        THEN <<FALSE, <<>>>>
        ELSE IF Len(non_zero) = 0 THEN <<FALSE, <<>>>>
        ELSE LET average == <<SumSeq(non_zero), Len(non_zero)>>
                 threshold == <<average[1] * ANOMALY_MULTIPLIER, average[2]>>
                 weeks == [i \in 1..Len(values) |-> i]
                 anomaly_weeks ==
                     SelectSeq(weeks, LAMBDA w : values[w] * threshold[2] > threshold[1])
             IN  <<Len(anomaly_weeks) > 0, anomaly_weeks>>

\* calculate_suggested_qty: weekly_velocity is a rational <<n, d>>
calculate_suggested_qty(weekly_velocity, effective_stock, target_weeks) ==
    IF weekly_velocity[1] <= 0 THEN 0
    ELSE LET n == weekly_velocity[1]
             d == weekly_velocity[2]
             \* suggested = target_stock - effective_stock, as <<sn, d>>
             sn == n * target_weeks - effective_stock * d
         IN  \* int(suggested + 0.5)
             Max(0, Trunc(2 * sn + d, 2 * d))

\* a variant that ignores the item status
skip_item_IgnoresStatus(item) == item.sku = ""

\* analyze_sku, lines 361-367, and analyze_sku_quick, lines 540-546: the
\* items for which the analyzer returns None at once
skip_item(item) == item.sku = "" \/ item.status = "inactive"

\* a variant that clamps available stock at zero
stock_facet_Clamped(item, po_q) ==
    LET stock_on_hand == item.stock_on_hand
        committed_stock == IF item.committed_stock # 0 THEN item.committed_stock
                           ELSE item.stock_committed
        available_stock == Max(0, stock_on_hand - committed_stock)
        open_po == IF item.sku \in DOMAIN po_q THEN po_q[item.sku] ELSE 0
    IN  [current_stock |-> stock_on_hand,
         committed_stock |-> committed_stock,
         available_stock |-> available_stock,
         open_po_qty |-> open_po,
         effective_stock |-> available_stock + open_po]

\* analyze_sku, lines 369-375: the stock facet
stock_facet(item, po_q) ==
    LET stock_on_hand == item.stock_on_hand
        committed_stock == IF item.committed_stock # 0 THEN item.committed_stock
                           ELSE item.stock_committed
        available_stock == stock_on_hand - committed_stock
        open_po == IF item.sku \in DOMAIN po_q THEN po_q[item.sku] ELSE 0
    IN  [current_stock |-> stock_on_hand,
         committed_stock |-> committed_stock,
         available_stock |-> available_stock,
         open_po_qty |-> open_po,
         effective_stock |-> available_stock + open_po]

\* analyze_sku, lines 382-392: first_sale_dates maps a sku to the text of a
\* date; parses says whether strptime accepts it, days is the age in days
is_new_product_of(sku, first_sale_dates) ==
    IF sku \in DOMAIN first_sale_dates /\ first_sale_dates[sku].parses
    THEN first_sale_dates[sku].days < 12 * 30
    ELSE FALSE

\* a variant that takes the 90 days for 12 weeks
velocity_of_90_day_TwelveWeeks(weekly_sales_90) == <<SumSeq(weekly_sales_90.qty), 12>>

\* analyze_sku, lines 427-432: the velocity of a 90-day entry, total / 13 in
\* either form
velocity_of_90_day(weekly_sales_90) == <<SumSeq(weekly_sales_90.qty), 13>>

\* a variant that leaves the status as it is
status_without_sales_Kept(weekly_velocity, status) == status

\* analyze_sku, lines 433-434: no 90-day entry to fall back to
status_without_sales(weekly_velocity, status) ==
    IF weekly_velocity[1] = 0 /\ status = NORMAL THEN NO_SALES ELSE status

\* a variant whose fallback test forgets `status != ANOMALY`
velocity_facet_FallbackOverAnomaly(sku, vly, v90, first_sale_dates) ==
    LET is_new_product == is_new_product_of(sku, first_sale_dates)
        has_ly == sku \in DOMAIN vly
        det == IF has_ly THEN detect_anomalies(vly[sku]) ELSE <<FALSE, <<>>>>
        status1 == IF has_ly /\ det[1] THEN ANOMALY ELSE NORMAL
        vel1 == IF ~has_ly \/ det[1] THEN <<0, 1>>
                ELSE IF vly[sku].form = "total" THEN <<vly[sku].qty[1], 6>>
                ELSE <<SumSeq(vly[sku].qty), Max(Len(vly[sku].qty), 1)>>
        fallback == is_new_product \/ vel1[1] = 0
        has_90 == sku \in DOMAIN v90
    IN  IF fallback /\ has_90
        THEN [weekly_velocity |-> <<SumSeq(v90[sku].qty), 13>>,
              velocity_source |-> "90_day_average",
              status |-> NEW_PRODUCT,
              anomaly_weeks |-> det[2]]
        ELSE IF fallback /\ vel1[1] = 0 /\ status1 = NORMAL
        THEN [weekly_velocity |-> vel1, velocity_source |-> "last_year",
              status |-> NO_SALES, anomaly_weeks |-> det[2]]
        ELSE [weekly_velocity |-> vel1, velocity_source |-> "last_year",
              status |-> status1, anomaly_weeks |-> det[2]]

\* analyze_sku, lines 394-434: velocity and status
velocity_facet(sku, vly, v90, first_sale_dates) ==
    LET is_new_product == is_new_product_of(sku, first_sale_dates)
        has_ly == sku \in DOMAIN vly
        det == IF has_ly THEN detect_anomalies(vly[sku]) ELSE <<FALSE, <<>>>>
        \* after the seasonal step
        status1 == IF has_ly /\ det[1] THEN ANOMALY ELSE NORMAL
        vel1 == IF ~has_ly \/ det[1] THEN <<0, 1>>
                ELSE IF vly[sku].form = "total" THEN <<vly[sku].qty[1], 6>>
                ELSE <<SumSeq(vly[sku].qty), Max(Len(vly[sku].qty), 1)>>
        fallback == is_new_product \/ (vel1[1] = 0 /\ status1 # ANOMALY)
        has_90 == sku \in DOMAIN v90
    IN  IF fallback /\ has_90
        THEN [weekly_velocity |-> velocity_of_90_day(v90[sku]),
              velocity_source |-> "90_day_average",
              status |-> NEW_PRODUCT,
              anomaly_weeks |-> det[2]]
        ELSE IF fallback
        THEN [weekly_velocity |-> vel1, velocity_source |-> "last_year",
              status |-> status_without_sales(vel1, status1), anomaly_weeks |-> det[2]]
        ELSE [weekly_velocity |-> vel1, velocity_source |-> "last_year",
              status |-> status1, anomaly_weeks |-> det[2]]

\* a variant that reports zero cover when there is no velocity
cover_of_ZeroSentinel(effective_stock, weekly_velocity) ==
    IF weekly_velocity[1] > 0
    THEN <<effective_stock * weekly_velocity[2], weekly_velocity[1]>>
    ELSE <<0, 1>>

\* analyze_sku, lines 436-441: weeks of cover as a rational; 999 without velocity
cover_of(effective_stock, weekly_velocity) ==
    IF weekly_velocity[1] > 0
    THEN <<effective_stock * weekly_velocity[2], weekly_velocity[1]>>
    ELSE <<999, 1>>

\* a variant that leaves the status out
needs_reorder_of_AnyStatus(weeks_of_cover, status) ==
    weeks_of_cover[1] < MIN_COVER_WEEKS * weeks_of_cover[2]

\* a variant with the inclusive comparison `<=`
needs_reorder_of_Inclusive(weeks_of_cover, status) ==
    weeks_of_cover[1] <= MIN_COVER_WEEKS * weeks_of_cover[2] /\ status = NORMAL

\* analyze_sku, line 444
needs_reorder_of(weeks_of_cover, status) ==
    weeks_of_cover[1] < MIN_COVER_WEEKS * weeks_of_cover[2] /\ status = NORMAL

\* analyze_sku.  tv, tc: how round() resolves a tie of the velocity / the cover.
\* In the record weekly_velocity is in hundredths and weeks_of_cover in tenths.
analyze_sku(item, po_q, vly, v90, first_sale_dates, tv, tc) ==
    IF skip_item(item) THEN None
    ELSE IF item.stock_is_text THEN Raised
    ELSE
    LET st == stock_facet(item, po_q)
        brand == IF item.brand # <<>> THEN item.brand ELSE item.manufacturer
        cost_price == IF item.purchase_rate # 0 THEN item.purchase_rate
                      ELSE item.purchase_price
        vf == velocity_facet(item.sku, vly, v90, first_sale_dates)
        weeks_of_cover == cover_of(st.effective_stock, vf.weekly_velocity)
        needs_reorder == needs_reorder_of(weeks_of_cover, vf.status)
        suggested_qty == IF needs_reorder
                         THEN calculate_suggested_qty(vf.weekly_velocity, st.effective_stock, 12)
                         ELSE 0
    IN  [kind |-> "SKUAnalysis",
         sku |-> item.sku,
         item_id |-> item.item_id,
         brand |-> brand,
         supplier |-> map_brand_to_supplier(brand),
         current_stock |-> st.current_stock,
         committed_stock |-> st.committed_stock,
         available_stock |-> st.available_stock,
         open_po_qty |-> st.open_po_qty,
         effective_stock |-> st.effective_stock,
         weekly_velocity |-> Round(100 * vf.weekly_velocity[1], vf.weekly_velocity[2], tv),
         velocity_source |-> vf.velocity_source,
         weeks_of_cover |-> Round(10 * weeks_of_cover[1], weeks_of_cover[2], tc),
         needs_reorder |-> needs_reorder,
         status |-> vf.status,
         anomaly_weeks |-> vf.anomaly_weeks,
         cost_price |-> cost_price,
         suggested_qty |-> suggested_qty,
         order_value |-> suggested_qty * cost_price]

\* analyze_sku_quick.  tc: how round() resolves a tie of the cover.
analyze_sku_quick(item, po_q, tc) ==
    IF skip_item(item) THEN None
    ELSE IF item.stock_is_text THEN Raised
    ELSE
    LET st == stock_facet(item, po_q)
        brand == IF item.brand # <<>> THEN item.brand ELSE item.manufacturer
        supplier == map_brand_to_supplier(brand)
        cost_price == IF item.purchase_rate # 0 THEN item.purchase_rate
                      ELSE item.purchase_price
        estimated_velocity == <<4, 1>>
        weeks_of_cover == IF estimated_velocity[1] > 0
                          THEN <<st.effective_stock * estimated_velocity[2], estimated_velocity[1]>>
                          ELSE <<999, 1>>
        needs_reorder == st.effective_stock < 20 /\ st.effective_stock >= 0
        suggested_qty == IF needs_reorder THEN Max(0, 50 - st.effective_stock) ELSE 0
    IN  IF brand = <<>> \/ supplier = Unknown THEN None
        ELSE
        [kind |-> "SKUAnalysis",
         sku |-> item.sku,
         item_id |-> item.item_id,
         brand |-> brand,
         supplier |-> supplier,
         current_stock |-> st.current_stock,
         committed_stock |-> st.committed_stock,
         available_stock |-> st.available_stock,
         open_po_qty |-> st.open_po_qty,
         effective_stock |-> st.effective_stock,
         weekly_velocity |-> 100 * estimated_velocity[1],
         velocity_source |-> "estimated",
         weeks_of_cover |-> Round(10 * weeks_of_cover[1], weeks_of_cover[2], tc),
         needs_reorder |-> needs_reorder,
         status |-> NORMAL,
         anomaly_weeks |-> <<>>,
         cost_price |-> cost_price,
         suggested_qty |-> suggested_qty,
         order_value |-> suggested_qty * cost_price]

(***************************************************************************)
(* Inputs of the single-call specification SpecFn.                         *)
(***************************************************************************)
Raeder == <<"R", "a_uml", "d", "e", "r">>
RAEDER_GMBH == <<"R", "A", "E", "D", "E", "R", " ", "G", "m", "b", "H">>
PPD == <<"P", "P", "D">>
Acme == <<"A", "c", "m", "e">>

\* an item of the catalog (a Zoho item dict); an absent key reads as 0 / <<>>
Item(sku, item_id, status, stock_on_hand, committed_stock, brand, purchase_rate) ==
    [sku |-> sku, item_id |-> item_id, status |-> status,
     stock_on_hand |-> stock_on_hand, stock_is_text |-> FALSE,
     committed_stock |-> committed_stock, stock_committed |-> 0,
     brand |-> brand, manufacturer |-> <<>>,
     purchase_rate |-> purchase_rate, purchase_price |-> 0]

StockValues == 0..MaxStock \cup {30, 100, 119}
CommittedValues == 0..MaxCommitted
TotalValues == 0..MaxTotal \cup {6, 60, 120, 126, 144}

\* the weekly series of section 8 of the specification: w4 is the spike
ExampleSeries == <<10, 12, 9, 100, 11, 8>>

FnItems ==
    {Item("A", 1, "active", s, c, Raeder, 100) : s \in StockValues, c \in CommittedValues}
    \cup {Item("A", 1, "inactive", 1, 0, Raeder, 100),
          Item("", 1, "active", 1, 0, Raeder, 100),
          Item("A", 1, "active", 1, 0, RAEDER_GMBH, 0),
          Item("A", 1, "active", 1, 0, Acme, 100),
          Item("A", 1, "active", 1, 0, Unknown, 100),
          Item("A", 1, "active", 1, 0, <<>>, 100),
          [Item("A", 1, "active", 1, 0, <<>>, 0) EXCEPT !.manufacturer = PPD,
                                                         !.purchase_price = 100],
          [Item("A", 1, "active", 1, 0, Raeder, 100) EXCEPT !.stock_committed = MaxCommitted],
          [Item("A", 1, "active", 1, 0, Raeder, 100) EXCEPT !.stock_is_text = TRUE],
          [Item("A", 1, "inactive", 1, 0, Raeder, 100) EXCEPT !.stock_is_text = TRUE]}

\* po_quantities: the sku absent, or present with a positive quantity
FnPoDicts == {EmptyDict} \cup {[s \in {"A"} |-> q] : q \in 1..MaxPO}

FnSeasonalEntries ==
    {Aggregate(n) : n \in TotalValues}
    \cup {WeeklySeries(s) : s \in {<<>>, <<0, 0>>, <<1, 0, 2>>, <<1, 1, 1, 10>>,
                                   <<1, 1, 1, 1, 1>>, <<7, 0, 0, 0, 0, 0>>, <<1, 0, 0, 0, 0>>,
                                   ExampleSeries}}

FnSeasonalDicts == {EmptyDict} \cup {[s \in {"A"} |-> e] : e \in FnSeasonalEntries}

FnRecentDicts ==
    {EmptyDict} \cup {[s \in {"A"} |-> e] : e \in {Aggregate(0), Aggregate(13),
                                                   WeeklySeries(<<1, 0>>)}}

FnFirstSaleDicts ==
    {EmptyDict} \cup {[s \in {"A"} |-> d] : d \in {[parses |-> FALSE, days |-> 0],
                                                   [parses |-> TRUE, days |-> 359],
                                                   [parses |-> TRUE, days |-> 360]}}

\* every mapping of at most MaxWeeks weeks over a few quantities
RECURSIVE SeqsUpTo(_, _)
SeqsUpTo(S, n) ==
    IF n = 0 THEN {<<>>}
    ELSE LET shorter == SeqsUpTo(S, n - 1)
         IN  shorter \cup {Append(s, x) : s \in {t \in shorter : Len(t) = n - 1}, x \in S}

DetectInputs ==
    {WeeklySeries(s) : s \in SeqsUpTo({0, 1, 2, 10}, MaxWeeks) \cup {ExampleSeries}}
    \cup {Aggregate(n) : n \in TotalValues}

\* velocities handed to calculate_suggested_qty: total/6, sum/weeks, and the
\* two-decimal velocity of a stored analysis
SuggestVelocities ==
    {<<n, d>> : n \in (-1..MaxVelNum) \cup {10, 17, 60}, d \in {1, 5, 6, 100}}
SuggestStocks == (-MaxCommitted..MaxStock) \cup {30}

Idle == [fn |-> "none", arg |-> <<>>, ret |-> <<>>]

(***************************************************************************)
(* SpecFn: one call of a pure function, made on freshly drawn inputs.       *)
(***************************************************************************)
CallDetectAnomalies ==
    /\ call = Idle
    /\ \E ws \in DetectInputs :
          call' = [fn |-> "detect_anomalies", arg |-> [weekly_sales |-> ws],
                   ret |-> detect_anomalies(ws)]
    /\ UNCHANGED runVars

CallCalculateSuggestedQty ==
    /\ call = Idle
    /\ \E v \in SuggestVelocities, e \in SuggestStocks :
          call' = [fn |-> "calculate_suggested_qty",
                   arg |-> [weekly_velocity |-> v, effective_stock |-> e, target_weeks |-> 12],
                   ret |-> calculate_suggested_qty(v, e, 12)]
    /\ UNCHANGED runVars

CallAnalyzeSku ==
    /\ call = Idle
    /\ \E item \in FnItems, po \in FnPoDicts, ly \in FnSeasonalDicts,
          r90 \in FnRecentDicts, fsd \in FnFirstSaleDicts, tv \in BOOLEAN, tc \in BOOLEAN :
          call' = [fn |-> "analyze_sku",
                   arg |-> [item |-> item, po_quantities |-> po,
                            velocity_data_last_year |-> ly, velocity_data_90_day |-> r90,
                            first_sale_dates |-> fsd],
                   ret |-> analyze_sku(item, po, ly, r90, fsd, tv, tc)]
    /\ UNCHANGED runVars

CallAnalyzeSkuQuick ==
    /\ call = Idle
    /\ \E item \in FnItems, po \in FnPoDicts, tc \in BOOLEAN :
          call' = [fn |-> "analyze_sku_quick",
                   arg |-> [item |-> item, po_quantities |-> po],
                   ret |-> analyze_sku_quick(item, po, tc)]
    /\ UNCHANGED runVars

\* get_sales_velocity_data has not been called
SalesIdle ==
    /\ sales_pc = "idle"
    /\ listing = [ok |-> TRUE, invoices |-> <<>>]
    /\ invoice_ids = <<>>
    /\ batch_at = 0
    /\ in_flight = {}
    /\ batch_results = <<>>
    /\ all_line_items = <<>>
    /\ velocity_data = <<>>

\* get_item_image has not been called and the caches are empty
ImageIdle ==
    /\ image_calls = 0
    /\ awaiting = [item_id \in ImageIds |-> 0]
    /\ fetching = [item_id \in ImageIds |-> 0]
    /\ image_cache = {}
    /\ image_cache_order = <<>>
    /\ no_image_cache = {}

\* no collaborator is at work
\* a caller that is not in get_all_items_cached
IdleCaller == [pc |-> "idle", now |-> 0, page |-> 0, all_items |-> <<>>,
               waited |-> FALSE, ret |-> <<>>]

\* no call of get_all_items_cached yet, the cache as the module creates it
ItemsIdle ==
    /\ all_items_cache = [items |-> NoItems, cached_at |-> NoTime]
    /\ cache_lock = [locked |-> FALSE, waiters |-> <<>>]
    /\ callers = [t \in 1..MaxCallers |-> IdleCaller]
    /\ clock = 0
    /\ waits = 0
    /\ refreshes = 0
    /\ failures = 0
    /\ empty_stores = 0

ZohoIdle == SalesIdle /\ ImageIdle /\ ItemsIdle

\* before the first run: nothing returned, nothing recorded
NoInputs ==
    [catalog_ok |-> TRUE, quick_mode |-> FALSE, brand_filter |-> <<>>, catalog |-> <<>>,
     open_pos |-> None, seasonal |-> None, recent |-> None, tie_up |-> FALSE]
NoFirst == [taken |-> FALSE, analyses |-> <<>>, supplier_orders |-> EmptyDict, report |-> None]

RunIdle ==
    /\ pc = "start"
    /\ quick_mode = FALSE
    /\ brand_filter = <<>>
    /\ all_items = <<>>
    /\ po_quantities = EmptyDict
    /\ velocity_data_last_year = EmptyDict
    /\ velocity_data_90_day = EmptyDict
    /\ idx = 0
    /\ analyses = <<>>
    /\ supplier_orders = EmptyDict
    /\ raised = "none"
    /\ report = None
    /\ history = {}
    /\ inputs = NoInputs
    /\ first_run = NoFirst
    /\ ZohoIdle

InitFn == RunIdle /\ call = Idle

(***************************************************************************)
(* group_by_supplier.                                                      *)
(***************************************************************************)
\* list.sort(key=lambda x: x.weeks_of_cover): a stable sort
RECURSIVE InsertByCover(_, _)
InsertByCover(sorted, a) ==
    IF sorted = <<>> THEN <<a>>
    ELSE IF sorted[Len(sorted)].weeks_of_cover <= a.weeks_of_cover THEN Append(sorted, a)
    ELSE Append(InsertByCover(SubSeq(sorted, 1, Len(sorted) - 1), a), sorted[Len(sorted)])

RECURSIVE SortByCover(_)
SortByCover(s) ==
    IF s = <<>> THEN <<>>
    ELSE InsertByCover(SortByCover(SubSeq(s, 1, Len(s) - 1)), s[Len(s)])

\* group_by_supplier, lines 486-496: the SupplierOrder a supplier starts with
NewSupplierOrder(supplier) ==
    [supplier_name |-> supplier,
     minimum_order_eur |-> get_supplier_minimum(supplier),
     reorder_items |-> <<>>,
     reorder_total_eur |-> 0,
     topup_candidates |-> <<>>,
     gap_to_minimum |-> 0,
     meets_minimum |-> FALSE]

\* group_by_supplier, lines 503-512: a top-up candidate is the same object
\* as in the list of analyses, with suggested_qty and order_value rewritten
\* from its stored (two-decimal) velocity
TopUp(analysis) ==
    IF analysis.weekly_velocity > 0
    THEN LET qty == calculate_suggested_qty(<<analysis.weekly_velocity, 100>>,
                                            analysis.effective_stock, 12)
         IN  [analysis EXCEPT !.suggested_qty = qty,
                              !.order_value = qty * analysis.cost_price]
    ELSE analysis

\* a variant that assigns the total instead of adding to it
AddReorder_Overwrites(group, analysis) ==
    [group EXCEPT !.reorder_items = Append(@, analysis),
                  !.reorder_total_eur = analysis.order_value]

\* group_by_supplier, lines 500-502
AddReorder(group, analysis) ==
    [group EXCEPT !.reorder_items = Append(@, analysis),
                  !.reorder_total_eur = @ + analysis.order_value]

\* group_by_supplier, lines 483-513: the loop over analyses[i..]; st holds the
\* groups built so far and the analyses as the loop has left them
RECURSIVE GroupLoop(_, _)
GroupLoop(st, i) ==
    IF i > Len(st.analyses) THEN st
    ELSE
    LET analysis == st.analyses[i]
        supplier == analysis.supplier
        groups0 == IF supplier \in DOMAIN st.groups THEN st.groups
                   ELSE [s \in DOMAIN st.groups \cup {supplier} |->
                            IF s = supplier THEN NewSupplierOrder(supplier) ELSE st.groups[s]]
        group == groups0[supplier]
        is_topup == /\ ~analysis.needs_reorder
                    /\ analysis.weeks_of_cover < TOPUP_MAX_WEEKS * 10
                    /\ analysis.status = NORMAL
        analysis1 == IF is_topup THEN TopUp(analysis) ELSE analysis
        group1 == IF analysis.needs_reorder
                  THEN AddReorder(group, analysis)
                  ELSE IF is_topup
                  THEN [group EXCEPT !.topup_candidates = Append(@, analysis1)]
                  ELSE group
    IN  GroupLoop([groups |-> [groups0 EXCEPT ![supplier] = group1],
                   analyses |-> [st.analyses EXCEPT ![i] = analysis1]], i + 1)

\* a variant whose gap is not clamped at zero
FinishGroup_UnclampedGap(group) ==
    [group EXCEPT !.reorder_items = SortByCover(@),
                  !.topup_candidates = SortByCover(@),
                  !.gap_to_minimum = group.minimum_order_eur - group.reorder_total_eur,
                  !.meets_minimum = group.reorder_total_eur >= group.minimum_order_eur]

\* group_by_supplier, lines 515-525: sort, gap and meets_minimum of one group
FinishGroup(group) ==
    [group EXCEPT !.reorder_items = SortByCover(@),
                  !.topup_candidates = SortByCover(@),
                  !.gap_to_minimum = Max(0, group.minimum_order_eur - group.reorder_total_eur),
                  !.meets_minimum = group.reorder_total_eur >= group.minimum_order_eur]

\* group_by_supplier: the returned dict, and the analyses after the call
group_by_supplier(analyses_in) ==
    LET st == GroupLoop([groups |-> EmptyDict, analyses |-> analyses_in], 1)
    IN  [groups |-> [s \in DOMAIN st.groups |-> FinishGroup(st.groups[s])],
         analyses |-> st.analyses]

(***************************************************************************)
(* format_analysis_report.                                                 *)
(***************************************************************************)
\* the characters of the model in code point order: str comparison
CodePointOrder ==
    <<" ", "4">> \o SubSeq(UpperChars, 1, 26) \o SubSeq(LowerChars, 1, 26)
                 \o <<"A_uml", "a_uml">>

CodePoint(c) == CHOOSE i \in 1..Len(CodePointOrder) : CodePointOrder[i] = c

\* a < b on str
RECURSIVE TextLess(_, _)
TextLess(a, b) ==
    IF a = <<>> THEN b # <<>>
    ELSE IF b = <<>> THEN FALSE
    ELSE IF Head(a) = Head(b) THEN TextLess(Tail(a), Tail(b))
    ELSE CodePoint(Head(a)) < CodePoint(Head(b))

\* line 700: sorted(supplier_orders.items()), the keys in ascending order
RECURSIVE SortedNames(_)
SortedNames(names) ==
    IF names = {} THEN <<>>
    ELSE LET least == CHOOSE x \in names : \A y \in names \ {x} : TextLess(x, y)
         IN  <<least>> \o SortedNames(names \ {least})

\* line 739: the number of top-up candidates shown
TOPUPS_SHOWN == 20

\* lines 711-726
reorder_entry(item) ==
    [sku |-> item.sku, item_id |-> item.item_id,
     current_stock |-> item.current_stock, committed_stock |-> item.committed_stock,
     available_stock |-> item.available_stock, open_po_qty |-> item.open_po_qty,
     effective_stock |-> item.effective_stock, weekly_velocity |-> item.weekly_velocity,
     weeks_of_cover |-> item.weeks_of_cover, status |-> item.status,
     cost_price |-> item.cost_price, suggested_qty |-> item.suggested_qty,
     order_value |-> item.order_value]

\* lines 730-738
topup_entry(item) ==
    [sku |-> item.sku, item_id |-> item.item_id, weeks_of_cover |-> item.weeks_of_cover,
     cost_price |-> item.cost_price, suggested_qty |-> item.suggested_qty,
     order_value |-> item.order_value]

\* a variant that lists every supplier
listed_Always(order) == TRUE

\* lines 701-702: a supplier without candidates is passed over
listed(order) == order.reorder_items # <<>> \/ order.topup_candidates # <<>>

\* lines 704-747: the entry of one supplier
supplier_entry(supplier_name, order) ==
    [supplier |-> supplier_name,
     minimum_eur |-> order.minimum_order_eur,
     reorder_total_eur |-> order.reorder_total_eur,
     gap_to_minimum |-> order.gap_to_minimum,
     meets_minimum |-> order.meets_minimum,
     reorder_items |-> [i \in 1..Len(order.reorder_items) |->
                           reorder_entry(order.reorder_items[i])],
     topup_candidates |->
         [i \in 1..(IF Len(order.topup_candidates) < TOPUPS_SHOWN
                    THEN Len(order.topup_candidates) ELSE TOPUPS_SHOWN) |->
             topup_entry(order.topup_candidates[i])],
     summary |->
         [reorder_count |-> Len(order.reorder_items),
          topup_count |-> Len(order.topup_candidates),
          anomaly_count |-> Len(SelectSeq(order.reorder_items, LAMBDA i : i.status = ANOMALY)),
          new_product_count |->
              Len(SelectSeq(order.reorder_items, LAMBDA i : i.status = NEW_PRODUCT))]]

\* a variant that counts every listed supplier below its minimum
below_minimum_WithoutReorder(s) == ~s.meets_minimum

\* line 752: the suppliers counted as below their minimum
below_minimum(s) == ~s.meets_minimum /\ s.summary.reorder_count > 0

\* format_analysis_report; now is the clock read at line 755
format_analysis_report(orders, now) ==
    LET names == SortedNames({s \in DOMAIN orders : listed(orders[s])})
        suppliers == [i \in 1..Len(names) |-> supplier_entry(names[i], orders[names[i]])]
    IN  [generated_at |-> now,
         summary |->
             [total_reorder_value_eur |->
                  SumSeq([i \in 1..Len(suppliers) |-> suppliers[i].reorder_total_eur]),
              total_reorder_skus |->
                  SumSeq([i \in 1..Len(suppliers) |-> suppliers[i].summary.reorder_count]),
              supplier_count |-> Len(suppliers),
              suppliers_below_minimum |-> Len(SelectSeq(suppliers, below_minimum))],
         suppliers |-> suppliers]

(***************************************************************************)
(* The data-gathering helpers of run_reorder_analysis.                     *)
(***************************************************************************)
\* dict.get(k, default) and d[k] = v
Get(d, k, default) == IF k \in DOMAIN d THEN d[k] ELSE default
Put(d, k, v) == [x \in DOMAIN d \cup {k} |-> IF x = k THEN v ELSE d[x]]

RECURSIVE Flatten(_)
Flatten(lists) == IF lists = <<>> THEN <<>> ELSE Head(lists) \o Flatten(Tail(lists))

\* get_open_po_quantities, lines 255-265, over the line items of all open POs
RECURSIVE PendingBySku(_, _)
PendingBySku(line_items, acc) ==
    IF line_items = <<>> THEN acc
    ELSE LET li == Head(line_items)
             pending == li.quantity - li.quantity_received
         IN  PendingBySku(Tail(line_items),
                          IF li.sku # "" /\ pending > 0
                          THEN Put(acc, li.sku, Get(acc, li.sku, 0) + pending)
                          ELSE acc)

\* a purchase order of the listing: detail_ok is FALSE when get_purchase_order
\* raises for it; line_items is po_data.get("line_items", [])
PurchaseOrder(status, detail_ok, line_items) ==
    [status |-> status, detail_ok |-> detail_ok, line_items |-> line_items]

\* a page of get_purchase_orders: ok is FALSE when the request raises; every
\* page but the last one of a listing has has_more_page
Page(ok, purchaseorders) == [ok |-> ok, purchaseorders |-> purchaseorders]

\* a variant that takes the purchase orders of every status
is_open_po_Any(po) == TRUE

\* zoho_api.get_all_open_purchase_orders, line 297
is_open_po(po) == po.status \in {"open", "ordered", "draft"}

\* zoho_api.get_all_open_purchase_orders, lines 300-307: the details of the
\* open purchase orders of one page; a purchase order whose detail request
\* raises is logged and left out
DetailsOf(purchaseorders) ==
    LET kept == SelectSeq(purchaseorders, LAMBDA po : is_open_po(po) /\ po.detail_ok)
    IN  [i \in 1..Len(kept) |-> kept[i].line_items]

\* zoho_api.get_all_open_purchase_orders, lines 288-316: page after page; a
\* page request that raises ends the call with that exception (ok FALSE), and
\* pos is then all_pos as the call leaves it behind
RECURSIVE get_all_open_purchase_orders(_)
get_all_open_purchase_orders(pages) ==
    IF pages = <<>> THEN [ok |-> TRUE, pos |-> <<>>]
    ELSE IF ~Head(pages).ok THEN [ok |-> FALSE, pos |-> <<>>]
    ELSE LET rest == get_all_open_purchase_orders(Tail(pages))
         IN  [ok |-> rest.ok, pos |-> DetailsOf(Head(pages).purchaseorders) \o rest.pos]

\* a variant that counts the purchase orders fetched before the failure
get_open_po_quantities_Partial(fetched) == PendingBySku(Flatten(fetched.pos), EmptyDict)

\* get_open_po_quantities: fetched.ok is FALSE when get_all_open_purchase_orders
\* raised (the except clause leaves the dict empty), else fetched.pos lists the
\* line items of each open purchase order
get_open_po_quantities(fetched) ==
    IF fetched.ok THEN PendingBySku(Flatten(fetched.pos), EmptyDict) ELSE EmptyDict

\* line 327: `sku and qty > 0` raises TypeError when the line has a sku and
\* its quantity is null
comparison_raises(li) == li.sku # "" /\ li.quantity_is_null

\* get_sales_velocity_data, lines 322-330 and 339-344: the loop adds into the
\* dict that the function returns; when a line raises, the except clause is
\* entered and the dict is returned as the loop has left it
RECURSIVE TotalBySku(_, _)
TotalBySku(line_items, acc) ==
    IF line_items = <<>> THEN acc
    ELSE LET li == Head(line_items)
         IN  IF comparison_raises(li) THEN acc
             ELSE TotalBySku(Tail(line_items),
                        IF li.sku # "" /\ li.quantity > 0
                        THEN Put(acc, li.sku,
                                 Aggregate(Get(acc, li.sku, Aggregate(0)).qty[1] + li.quantity))
                        ELSE acc)

\* get_sales_velocity_data: fetched.ok is FALSE when listing the invoices raised,
\* else fetched.invoices lists the line items fetched for each invoice
get_sales_velocity_data(fetched) ==
    IF fetched.ok THEN TotalBySku(Flatten(fetched.invoices), EmptyDict) ELSE EmptyDict

\* the except clause of lines 339-342 was entered: the listing raised, or a
\* line of the aggregation did
sales_fetch_raised(fetched) ==
    \/ ~fetched.ok
    \/ \E i \in 1..Len(Flatten(fetched.invoices)) :
           comparison_raises(Flatten(fetched.invoices)[i])

(***************************************************************************)
(* Inputs of Spec: what the collaborators return.                          *)
(***************************************************************************)
RunTemplates ==
    {Item("A", 0, "active", 0, 0, Raeder, 100),
     Item("B", 0, "active", 5, 0, Raeder, 100),
     Item("B", 0, "active", 10, 0, PPD, 100),
     Item("B", 0, "active", 30, 0, Acme, 100),
     Item("A", 0, "inactive", 0, 0, Raeder, 100),
     Item("", 0, "active", 0, 0, Raeder, 100),
     Item("A", 0, "active", 0, 0, <<>>, 100),
     [Item("A", 0, "active", 0, 0, Raeder, 100) EXCEPT !.stock_is_text = TRUE],
     Item("B", 0, "active", 0, MaxCommitted, RAEDER_GMBH, 100)}

\* a catalog of 1..MaxItems items; item_id is the position in the catalog
RunCatalogs ==
    UNION {{[i \in 1..n |-> [c[i] EXCEPT !.item_id = i]] : c \in [1..n -> RunTemplates]}
           : n \in 1..MaxItems}

RunBrandFilters == {<<>>, << <<"R", "A_uml", "D", "E", "R">> >>}

PoLine(sku, quantity, quantity_received) ==
    [sku |-> sku, quantity |-> quantity, quantity_received |-> quantity_received]
SoldLine(sku, quantity) == [sku |-> sku, quantity |-> quantity, quantity_is_null |-> FALSE]
\* a line item whose quantity is null
NullLine(sku) == [sku |-> sku, quantity |-> 0, quantity_is_null |-> TRUE]

\* listings of the purchase orders: an empty one, one of two pages, and one
\* whose second page request raises
RunPoPages ==
    {<< Page(TRUE, <<>>) >>,
     << Page(TRUE, << PurchaseOrder("open", TRUE, <<PoLine("A", 10, 10)>>) >>),
        Page(TRUE, << PurchaseOrder("draft", TRUE, <<PoLine("B", 12, 5), PoLine("B", 3, 0)>>) >>) >>,
     << Page(TRUE, << PurchaseOrder("open", TRUE, <<PoLine("B", 12, 5)>>) >>),
        Page(FALSE, <<>>) >>}

\* what get_all_open_purchase_orders makes of them
RunOpenPOs == {get_all_open_purchase_orders(pages) : pages \in RunPoPages}

RunSeasonalInvoices ==
    {[ok |-> TRUE, invoices |-> <<>>],
     [ok |-> TRUE, invoices |-> << <<SoldLine("A", 10), SoldLine("", 1)>>,
                                  <<SoldLine("B", 4), SoldLine("B", 6), SoldLine("B", 0)>> >>],
     [ok |-> TRUE, invoices |-> << <<SoldLine("A", 10)>>, <<NullLine("B"), SoldLine("B", 10)>> >>],
     [ok |-> FALSE, invoices |-> <<>>]}

RunRecentInvoices ==
    {[ok |-> TRUE, invoices |-> <<>>],
     [ok |-> TRUE, invoices |-> << <<SoldLine("B", 13)>> >>],
     [ok |-> FALSE, invoices |-> <<>>]}

(***************************************************************************)
(* SpecFn, continued: single calls of the data-gathering helpers.          *)
(***************************************************************************)
\* purchase orders of a listing: pending stock, nothing pending, two lines of
\* one SKU, more received than ordered, a billed one, one whose details
\* cannot be fetched, a line without sku, and one without lines
FnPurchaseOrders ==
    {PurchaseOrder("open", TRUE, <<PoLine("A", MaxPO, 0)>>),
     PurchaseOrder("ordered", TRUE, <<PoLine("A", 1, 1)>>),
     PurchaseOrder("draft", TRUE, <<PoLine("B", 2, 1), PoLine("B", MaxPO, 0)>>),
     PurchaseOrder("open", TRUE, <<PoLine("A", 1, 2)>>),
     PurchaseOrder("billed", TRUE, <<PoLine("A", 2, 0)>>),
     PurchaseOrder("open", FALSE, <<PoLine("B", 2, 0)>>),
     PurchaseOrder("open", TRUE, <<PoLine("", 1, 0)>>),
     PurchaseOrder("open", TRUE, <<>>)}

\* listings of up to MaxOrders purchase orders on one page, and listings of
\* two pages with one purchase order each, whose second request may raise
FnPoPages ==
    {<< Page(TRUE, pos) >> : pos \in SeqsUpTo(FnPurchaseOrders, MaxOrders)}
    \cup {<< Page(TRUE, <<a>>), Page(TRUE, <<b>>) >> : a, b \in FnPurchaseOrders}
    \cup {<< Page(TRUE, <<a>>), Page(FALSE, <<>>) >> : a \in FnPurchaseOrders}
    \cup {<< Page(FALSE, <<>>) >>}

\* get_open_po_quantities over a listing served by get_all_open_purchase_orders
CallGetOpenPoQuantities ==
    /\ call = Idle
    /\ \E pages \in FnPoPages :
          call' = [fn |-> "get_open_po_quantities", arg |-> [pages |-> pages],
                   ret |-> get_open_po_quantities(get_all_open_purchase_orders(pages))]
    /\ UNCHANGED runVars

NextFn ==
    \/ CallDetectAnomalies
    \/ CallCalculateSuggestedQty
    \/ CallAnalyzeSku
    \/ CallAnalyzeSkuQuick
    \/ CallGetOpenPoQuantities

SpecFn == InitFn /\ [][NextFn]_vars

(***************************************************************************)
(* Spec: one run of run_reorder_analysis.                                  *)
(***************************************************************************)
\* run_reorder_analysis, lines 619-628
FilterByBrand(items, filter) ==
    IF filter = <<>> THEN items
    ELSE LET brand_filter_lower == [i \in 1..Len(filter) |-> Lower(filter[i])]
         IN  SelectSeq(items, LAMBDA item :
                 \E i \in 1..Len(brand_filter_lower) :
                     \/ IsSubstring(brand_filter_lower[i], Lower(item.brand))
                     \/ IsSubstring(brand_filter_lower[i], Lower(item.manufacturer)))

\* a variant that goes on with the list it finds
new_analyses_Stale(stale) == stale

\* lines 642 and 662: `analyses = []` before either loop
new_analyses(stale) == <<>>

\* a variant that fetches the sales history in quick mode too
after_open_pos_AlwaysFull(quick) == "have_po"

\* line 634: the branch on quick_mode
after_open_pos(quick) == IF quick THEN "analyzing" ELSE "have_po"

\* the run in progress is the repetition
Second == first_run.taken

\* the answers of the collaborators are given (SpecRepeat); otherwise each
\* step draws its answer freely (Spec)
Given == inputs # NoInputs

\* lines 612-629: the call, get_all_items_cached and the brand filter
LoadItems ==
    /\ pc = "start"
    /\ \E qm \in BOOLEAN, bf \in RunBrandFilters, catalog \in RunCatalogs :
          /\ Given => /\ inputs.catalog_ok
                      /\ qm = inputs.quick_mode
                      /\ bf = inputs.brand_filter
                      /\ catalog = inputs.catalog
          /\ quick_mode' = qm
          /\ brand_filter' = bf
          /\ all_items' = FilterByBrand(catalog, bf)
    /\ pc' = "have_items"
    /\ UNCHANGED <<po_quantities, velocity_data_last_year, velocity_data_90_day, idx,
                   analyses, supplier_orders, raised, report, history, inputs, first_run,
                   call, zohoVars>>

\* line 615: get_all_items_cached raises and nothing catches it
LoadItemsFails ==
    /\ pc = "start"
    /\ \E qm \in BOOLEAN, bf \in RunBrandFilters :
          /\ Given => /\ ~inputs.catalog_ok
                      /\ qm = inputs.quick_mode
                      /\ bf = inputs.brand_filter
          /\ quick_mode' = qm
          /\ brand_filter' = bf
    /\ pc' = "raised"
    /\ raised' = "catalog"
    /\ UNCHANGED <<all_items, po_quantities, velocity_data_last_year, velocity_data_90_day,
                   idx, analyses, supplier_orders, report, history, inputs, first_run, call, zohoVars>>

\* lines 632-642: get_open_po_quantities and the branch; in quick mode the
\* sales dicts are emptied and the loop of line 643 is entered
GetOpenPoQuantities ==
    /\ pc = "have_items"
    /\ \E fetched \in RunOpenPOs :
          /\ Given => fetched = inputs.open_pos
          /\ po_quantities' = get_open_po_quantities(fetched)
          /\ history' = history \cup (IF fetched.ok THEN {} ELSE {"open POs failed"})
    /\ pc' = after_open_pos(quick_mode)
    /\ IF quick_mode
       THEN /\ velocity_data_last_year' = EmptyDict
            /\ velocity_data_90_day' = EmptyDict
            /\ analyses' = new_analyses(analyses)
            /\ idx' = 0
       ELSE UNCHANGED <<velocity_data_last_year, velocity_data_90_day, analyses, idx>>
    /\ UNCHANGED <<quick_mode, brand_filter, all_items, supplier_orders, raised, report,
                   inputs, first_run, call, zohoVars>>

\* lines 650-652
GetSeasonalSales ==
    /\ pc = "have_po"
    /\ \E fetched \in RunSeasonalInvoices :
          /\ Given => fetched = inputs.seasonal
          /\ velocity_data_last_year' = get_sales_velocity_data(fetched)
          /\ history' = history \cup {"get_sales_velocity_data"}
                 \cup (IF sales_fetch_raised(fetched) THEN {"seasonal window failed"} ELSE {})
    /\ pc' = "have_seasonal"
    /\ UNCHANGED <<quick_mode, brand_filter, all_items, po_quantities, velocity_data_90_day,
                   idx, analyses, supplier_orders, raised, report, inputs, first_run, call, zohoVars>>

\* lines 655-662: the 90-day window, then the loop of line 663 is entered
GetRecentSales ==
    /\ pc = "have_seasonal"
    /\ \E fetched \in RunRecentInvoices :
          /\ Given => fetched = inputs.recent
          /\ velocity_data_90_day' = get_sales_velocity_data(fetched)
          /\ history' = history \cup {"get_sales_velocity_data"}
                 \cup (IF sales_fetch_raised(fetched) THEN {"90-day window failed"} ELSE {})
    /\ pc' = "analyzing"
    /\ analyses' = new_analyses(analyses)
    /\ idx' = 0
    /\ UNCHANGED <<quick_mode, brand_filter, all_items, po_quantities, velocity_data_last_year,
                   supplier_orders, raised, report, inputs, first_run, call, zohoVars>>

\* one pass of either analysis loop: result is what the analyzer gave for
\* all_items[idx + 1]; an exception leaves run_reorder_analysis, which has no
\* try around the call
LoopStep(result) ==
    /\ idx' = idx + 1
    /\ IF result.kind = "SKUAnalysis"
       THEN analyses' = Append(analyses, result) /\ UNCHANGED <<pc, raised>>
       ELSE IF result.kind = "None"
       THEN UNCHANGED <<analyses, pc, raised>>
       ELSE /\ pc' = "raised"
            /\ raised' = result.kind
            /\ UNCHANGED analyses

\* round() is a function of its argument: where the answers are given, so
\* is the way a tie goes, the same in every run
Rounding(up) == Given => up = inputs.tie_up

\* lines 641-646: quick mode
AnalyzeItemQuick ==
    /\ pc = "analyzing"
    /\ quick_mode
    /\ idx < Len(all_items)
    /\ \E tc \in BOOLEAN :
          /\ Rounding(tc)
          /\ LoopStep(analyze_sku_quick(all_items[idx + 1], po_quantities, tc))
    /\ history' = history \cup {"analyze_sku_quick"}
    /\ UNCHANGED <<quick_mode, brand_filter, all_items, po_quantities,
                   velocity_data_last_year, velocity_data_90_day, supplier_orders,
                   report, inputs, first_run, call, zohoVars>>

\* lines 659-672: full mode; first_sale_dates is always the empty dict
AnalyzeItem ==
    /\ pc = "analyzing"
    /\ ~quick_mode
    /\ idx < Len(all_items)
    /\ \E tv \in BOOLEAN, tc \in BOOLEAN :
          /\ Rounding(tv) /\ Rounding(tc)
          /\ LoopStep(analyze_sku(all_items[idx + 1], po_quantities, velocity_data_last_year,
                                  velocity_data_90_day, EmptyDict, tv, tc))
    /\ history' = history \cup {"analyze_sku"}
    /\ UNCHANGED <<quick_mode, brand_filter, all_items, po_quantities,
                   velocity_data_last_year, velocity_data_90_day, supplier_orders,
                   report, inputs, first_run, call, zohoVars>>

\* lines 676-691: group_by_supplier, then return
GroupBySupplier ==
    /\ pc = "analyzing"
    /\ idx = Len(all_items)
    /\ LET g == group_by_supplier(analyses)
       IN  /\ supplier_orders' = g.groups
           /\ analyses' = g.analyses
    /\ pc' = "done"
    /\ UNCHANGED <<quick_mode, brand_filter, all_items, po_quantities,
                   velocity_data_last_year, velocity_data_90_day, idx, raised, report,
                   history, inputs, first_run, call, zohoVars>>

\* the caller hands the returned dict to format_analysis_report; the clock
\* of line 755 reads 1 in the first run and 2 in the repetition
FormatReport ==
    /\ pc = "done"
    /\ report' = format_analysis_report(supplier_orders, IF Second THEN 2 ELSE 1)
    /\ pc' = "reported"
    /\ UNCHANGED <<quick_mode, brand_filter, all_items, po_quantities,
                   velocity_data_last_year, velocity_data_90_day, idx, analyses,
                   supplier_orders, raised, history, inputs, first_run, call, zohoVars>>

\* the caller runs the analysis again; the collaborators answer as they
\* did.  Nothing is reset here: what the first run left behind stays until
\* the code assigns it anew.
RunAgain ==
    /\ pc = "reported"
    /\ Given
    /\ ~Second
    /\ first_run' = [taken |-> TRUE, analyses |-> analyses,
                     supplier_orders |-> supplier_orders, report |-> report]
    /\ history' = {}
    /\ pc' = "start"
    /\ UNCHANGED <<quick_mode, brand_filter, all_items, po_quantities,
                   velocity_data_last_year, velocity_data_90_day, idx, analyses,
                   supplier_orders, raised, report, inputs, call, zohoVars>>

Init == RunIdle /\ call = Idle

Next ==
    \/ LoadItems
    \/ LoadItemsFails
    \/ GetOpenPoQuantities
    \/ GetSeasonalSales
    \/ GetRecentSales
    \/ AnalyzeItemQuick
    \/ AnalyzeItem
    \/ GroupBySupplier
    \/ FormatReport

Spec == Init /\ [][Next]_vars

(***************************************************************************)
(* SpecRepeat: the run and its report, twice over the same answers.        *)
(***************************************************************************)
\* catalogs of MaxItems items that put SKUs in both lists of a supplier
RepeatCatalogs ==
    {c \in RunCatalogs :
        /\ Len(c) = MaxItems
        /\ \A i \in 1..Len(c) :
               /\ c[i].status = "active" /\ c[i].sku # "" /\ ~c[i].stock_is_text
               /\ c[i].brand \in {Raeder, PPD}}

RepeatInputs ==
    {[catalog_ok |-> TRUE, quick_mode |-> qm, brand_filter |-> <<>>, catalog |-> c,
      open_pos |-> po, seasonal |-> ly, recent |-> [ok |-> TRUE, invoices |-> <<>>],
      tie_up |-> up] :
        qm \in BOOLEAN, c \in RepeatCatalogs, up \in BOOLEAN,
        po \in {fetched \in RunOpenPOs : fetched.ok},
        ly \in {fetched \in RunSeasonalInvoices : fetched.ok /\ fetched.invoices # <<>>}}
    \cup {[NoInputs EXCEPT !.catalog_ok = FALSE]}

InitRepeat ==
    /\ inputs \in RepeatInputs
    /\ pc = "start"
    /\ quick_mode = FALSE
    /\ brand_filter = <<>>
    /\ all_items = <<>>
    /\ po_quantities = EmptyDict
    /\ velocity_data_last_year = EmptyDict
    /\ velocity_data_90_day = EmptyDict
    /\ idx = 0
    /\ analyses = <<>>
    /\ supplier_orders = EmptyDict
    /\ raised = "none"
    /\ report = None
    /\ history = {}
    /\ first_run = NoFirst
    /\ call = Idle
    /\ ZohoIdle

NextRepeat == Next \/ RunAgain

SpecRepeat == InitRepeat /\ [][NextRepeat]_vars

(***************************************************************************)
(* SpecSales: one call of get_sales_velocity_data, stepped at its awaits.  *)
(* The fetches that asyncio.gather runs finish in any order.               *)
(***************************************************************************)
\* an invoice of the listing: has_id is FALSE when it carries no invoice_id,
\* fetch_ok is FALSE when get_invoice raises for it
Invoice(has_id, fetch_ok, line_items) ==
    [has_id |-> has_id, fetch_ok |-> fetch_ok, line_items |-> line_items]

SalesInvoices ==
    {Invoice(TRUE, TRUE, <<SoldLine("A", 1)>>),
     Invoice(TRUE, TRUE, <<NullLine("B"), SoldLine("B", 2)>>),
     Invoice(TRUE, FALSE, <<SoldLine("A", 5)>>),
     Invoice(FALSE, TRUE, <<SoldLine("B", 1)>>)}

\* what get_invoices_by_date_range answers: it raises, or lists up to
\* MaxInvoices invoices
SalesListings ==
    {[ok |-> TRUE, invoices |-> invs] : invs \in SeqsUpTo(SalesInvoices, MaxInvoices)}
    \cup {[ok |-> FALSE, invoices |-> <<>>]}

\* line 304: the invoices that carry an id, by their position in the listing
IdsOf(invoices) ==
    SelectSeq([k \in 1..Len(invoices) |-> k], LAMBDA k : invoices[k].has_id)

\* fetch_invoice_line_items, lines 274-281: the line items, or [] when
\* get_invoice raises
fetch_invoice_line_items(invoice) ==
    IF invoice.fetch_ok THEN invoice.line_items ELSE <<>>

\* a variant that hands every remaining invoice to one gather
batch_of_AllAtOnce(ids, at) == (at + 1)..Len(ids)

\* line 311: batch = invoice_ids[i:i+batch_size], as positions in invoice_ids
batch_of(ids, at) == {k \in (at + 1)..Len(ids) : k <= at + BatchSize}

\* lines 296-301: the listing; an exception, or no invoice, ends the call
\* with the empty dict
ListInvoices ==
    /\ sales_pc = "idle"
    /\ \E answer \in SalesListings :
          /\ listing' = answer
          /\ IF ~answer.ok \/ answer.invoices = <<>>
             THEN /\ sales_pc' = "returned"
                  /\ UNCHANGED invoice_ids
             ELSE /\ sales_pc' = "loop"
                  /\ invoice_ids' = IdsOf(answer.invoices)
    /\ batch_at' = 0
    /\ all_line_items' = <<>>
    /\ velocity_data' = EmptyDict
    /\ UNCHANGED <<in_flight, batch_results, engineVars, imageVars,
                   itemsVars>>

\* lines 310-317: the next batch is handed to asyncio.gather, which starts
\* one fetch per invoice of the batch
StartBatch ==
    /\ sales_pc = "loop"
    /\ batch_at < Len(invoice_ids)
    /\ in_flight' = batch_of(invoice_ids, batch_at)
    /\ batch_results' = EmptyDict
    /\ sales_pc' = "gathering"
    /\ UNCHANGED <<listing, invoice_ids, batch_at, all_line_items, velocity_data, engineVars, imageVars,
                   itemsVars>>

\* one fetch of the batch finishes, whichever; gather keeps its result at
\* the position of its invoice
CompleteFetch ==
    /\ sales_pc = "gathering"
    /\ \E k \in in_flight :
          /\ in_flight' = in_flight \ {k}
          /\ batch_results' =
                Put(batch_results, k,
                    fetch_invoice_line_items(listing.invoices[invoice_ids[k]]))
    /\ UNCHANGED <<sales_pc, listing, invoice_ids, batch_at, all_line_items, velocity_data,
                   engineVars, imageVars,
                   itemsVars>>

\* lines 319-320: gather returns once every fetch has finished; the results
\* are appended in the order of the batch
EndBatch ==
    /\ sales_pc = "gathering"
    /\ in_flight = {}
    /\ LET done == SelectSeq([k \in 1..Len(invoice_ids) |-> k],
                             LAMBDA k : k \in DOMAIN batch_results)
       IN  all_line_items' =
               all_line_items \o Flatten([n \in 1..Len(done) |-> batch_results[done[n]]])
    /\ batch_at' = batch_at + BatchSize
    /\ batch_results' = EmptyDict
    /\ sales_pc' = "loop"
    /\ UNCHANGED <<listing, invoice_ids, in_flight, velocity_data, engineVars, imageVars,
                   itemsVars>>

\* lines 322-344: the aggregation over all_line_items and the return
AggregateBySku ==
    /\ sales_pc = "loop"
    /\ batch_at >= Len(invoice_ids)
    /\ velocity_data' = TotalBySku(all_line_items, EmptyDict)
    /\ sales_pc' = "returned"
    /\ UNCHANGED <<listing, invoice_ids, batch_at, in_flight, batch_results, all_line_items,
                   engineVars, imageVars,
                   itemsVars>>

NextSales ==
    \/ ListInvoices
    \/ StartBatch
    \/ CompleteFetch
    \/ EndBatch
    \/ AggregateBySku

SpecSales == Init /\ [][NextSales]_vars

(***************************************************************************)
(* SpecImage: concurrent calls of zoho_api.get_item_image on one event     *)
(* loop.  A call runs without interruption from one await to the next; the *)
(* calls differ only in their item_id, so each position holds the number   *)
(* of calls that are at it, per item_id.                                   *)
(***************************************************************************)
\* line 486: the item 0 has no image document
has_document(item_id) == item_id # 0

\* the image requests that hold the semaphore
Permits == SumSeq([n \in 1..(ImageCacheMax + 3) |-> fetching[n - 1]])

\* list.remove(x): the first occurrence goes
RECURSIVE RemoveFirst(_, _)
RemoveFirst(s, x) ==
    IF s = <<>> THEN <<>>
    ELSE IF Head(s) = x THEN Tail(s)
    ELSE <<Head(s)>> \o RemoveFirst(Tail(s), x)

\* line 497: the second look into the cache, under the semaphore
already_cached(item_id, cache) == item_id \in cache

\* lines 470-483: the call up to its first await.  A hit moves the id to the
\* end of the order list; a known missing image returns None; otherwise the
\* call awaits get_all_items_cached
CallGetItemImage ==
    /\ image_calls < MaxCalls
    /\ image_calls' = image_calls + 1
    /\ \E item_id \in ImageIds :
          IF item_id \in image_cache
          THEN /\ image_cache_order' =
                     Append(IF \E k \in 1..Len(image_cache_order) :
                                   image_cache_order[k] = item_id
                            THEN RemoveFirst(image_cache_order, item_id)
                            ELSE image_cache_order, item_id)
               /\ UNCHANGED <<awaiting, image_cache, no_image_cache, fetching>>
          ELSE IF item_id \in no_image_cache
          THEN UNCHANGED <<awaiting, image_cache, image_cache_order, no_image_cache, fetching>>
          ELSE /\ awaiting' = [awaiting EXCEPT ![item_id] = @ + 1]
               /\ UNCHANGED <<image_cache, image_cache_order, no_image_cache, fetching>>
    /\ UNCHANGED <<engineVars, salesVars, itemsVars>>

\* lines 486-491: get_all_items_cached has returned and the item has no
\* document: remembered, None returned
NoDocument ==
    /\ \E item_id \in ImageIds :
          /\ awaiting[item_id] > 0
          /\ ~has_document(item_id)
          /\ awaiting' = [awaiting EXCEPT ![item_id] = @ - 1]
          /\ no_image_cache' = no_image_cache \cup {item_id}
    /\ UNCHANGED <<image_calls, image_cache, image_cache_order, fetching, engineVars, salesVars, itemsVars>>

\* lines 486-504: get_all_items_cached has returned, the semaphore is taken
\* as soon as it has a permit left, the cache is looked up once more, and
\* the request for the document is sent
EnterFetch ==
    /\ Permits < ImagePermits
    /\ \E item_id \in ImageIds :
          /\ awaiting[item_id] > 0
          /\ has_document(item_id)
          /\ awaiting' = [awaiting EXCEPT ![item_id] = @ - 1]
          /\ IF already_cached(item_id, image_cache)
             THEN UNCHANGED fetching
             ELSE fetching' = [fetching EXCEPT ![item_id] = @ + 1]
    /\ UNCHANGED <<image_calls, image_cache, image_cache_order, no_image_cache, engineVars,
                   salesVars, itemsVars>>

\* lines 509-526: the response has arrived.  A good one is stored, after
\* the oldest entry of the order list has been dropped when the cache is
\* full; a bad one marks the item as having no image.  The semaphore is
\* released.
StoreImage ==
    /\ \E item_id \in ImageIds, good \in BOOLEAN :
          /\ fetching[item_id] > 0
          /\ fetching' = [fetching EXCEPT ![item_id] = @ - 1]
          /\ IF good
             THEN LET full == Cardinality(image_cache) >= ImageCacheMax
                      evict == full /\ image_cache_order # <<>>
                      kept == IF evict THEN image_cache \ {Head(image_cache_order)}
                              ELSE image_cache
                      order == IF evict THEN Tail(image_cache_order) ELSE image_cache_order
                  IN  /\ image_cache' = kept \cup {item_id}
                      /\ image_cache_order' = Append(order, item_id)
                      /\ UNCHANGED no_image_cache
             ELSE /\ no_image_cache' = no_image_cache \cup {item_id}
                  /\ UNCHANGED <<image_cache, image_cache_order>>
    /\ UNCHANGED <<image_calls, awaiting, engineVars, salesVars, itemsVars>>

NextImage ==
    \/ CallGetItemImage
    \/ NoDocument
    \/ EnterFetch
    \/ StoreImage

SpecImage == Init /\ [][NextImage]_vars

(***************************************************************************)
(* SpecItems: concurrent calls of zoho_api.get_all_items_cached on one     *)
(* event loop.  The callers of a burst call at the same reading of the     *)
(* clock; between two bursts the clock moves on.                           *)
(***************************************************************************)
Callers == 1..MaxCallers

\* lines 29-32 and 37-40: items is set and not empty, cached_at is set, and
\* the age at the caller's `now` is below the TTL
cache_valid(cache, now) ==
    /\ cache.items # NoItems /\ cache.items # <<>>
    /\ cache.cached_at # NoTime
    /\ now - cache.cached_at < ALL_ITEMS_CACHE_TTL

\* a variant without the second look
valid_under_lock_Unchecked(cache, now) == FALSE

\* lines 37-40: the second look at the cache, once the lock is held
valid_under_lock(cache, now) == cache_valid(cache, now)

\* a caller enters a refresh: lines 42-45
StartRefresh(t, now, waited) ==
    /\ callers' = [callers EXCEPT ![t] = [pc |-> "fetching", now |-> now, page |-> 1,
                                          all_items |-> <<>>, waited |-> waited,
                                          ret |-> <<>>]]
    /\ refreshes' = refreshes + 1

\* lines 23-40: a call up to its first await.  A valid cache is returned at
\* once; otherwise the lock is taken if it is free and nobody waits for it,
\* and the first page is requested; otherwise the caller waits for the lock.
\* The callers of a burst are numbered in the order of their calls
CallGetAllItemsCached ==
    /\ \E t \in Callers :
          /\ callers[t].pc = "idle"
          /\ \A earlier \in 1..(t - 1) : callers[earlier].pc # "idle"
          /\ IF cache_valid(all_items_cache, clock)
             THEN /\ callers' = [callers EXCEPT ![t] = [IdleCaller EXCEPT
                                     !.pc = "returned", !.now = clock,
                                     !.ret = all_items_cache.items]]
                  /\ UNCHANGED <<cache_lock, refreshes>>
             ELSE IF ~cache_lock.locked /\ cache_lock.waiters = <<>>
             THEN /\ cache_lock' = [cache_lock EXCEPT !.locked = TRUE]
                  /\ StartRefresh(t, clock, FALSE)
             ELSE /\ cache_lock' = [cache_lock EXCEPT !.waiters = Append(@, t)]
                  /\ callers' = [callers EXCEPT ![t] = [IdleCaller EXCEPT
                                     !.pc = "waiting", !.now = clock, !.waited = TRUE]]
                  /\ UNCHANGED refreshes
    /\ UNCHANGED <<all_items_cache, clock, waits, failures, empty_stores,
                   engineVars, salesVars, imageVars>>

\* lines 35-40: the lock is handed to the caller that has waited longest,
\* which looks at the cache again before it fetches
LockGranted ==
    /\ ~cache_lock.locked
    /\ cache_lock.waiters # <<>>
    /\ LET t == Head(cache_lock.waiters)
       IN  IF valid_under_lock(all_items_cache, callers[t].now)
           THEN /\ callers' = [callers EXCEPT ![t].pc = "returned",
                                              ![t].ret = all_items_cache.items]
                /\ cache_lock' = [locked |-> FALSE, waiters |-> Tail(cache_lock.waiters)]
                /\ UNCHANGED refreshes
           ELSE /\ StartRefresh(t, callers[t].now, TRUE)
                /\ cache_lock' = [locked |-> TRUE, waiters |-> Tail(cache_lock.waiters)]
    /\ UNCHANGED <<all_items_cache, clock, waits, failures, empty_stores,
                   engineVars, salesVars, imageVars>>

\* lines 47-58: get_items answers with a page that is followed by another;
\* such a page is a full one
PageArrives ==
    /\ \E t \in Callers :
          /\ callers[t].pc = "fetching"
          /\ callers[t].page < MaxPages
          /\ callers' = [callers EXCEPT ![t].all_items = @ \o <<"item">>, ![t].page = @ + 1]
    /\ UNCHANGED <<all_items_cache, cache_lock, clock, waits, refreshes, failures,
                   empty_stores, engineVars, salesVars, imageVars>>

\* lines 47-64: get_items answers with the last page; the catalog is stored
\* with the `now` of the caller, the lock released, the catalog returned
LastPageArrives ==
    /\ \E t \in Callers, items \in {<<>>, <<"item">>} :
          /\ callers[t].pc = "fetching"
          /\ LET all == callers[t].all_items \o items
             IN  /\ all_items_cache' = [items |-> all, cached_at |-> callers[t].now]
                 /\ callers' = [callers EXCEPT ![t].pc = "returned", ![t].all_items = <<>>,
                                               ![t].ret = all]
                 /\ empty_stores' = empty_stores + (IF all = <<>> THEN 1 ELSE 0)
    /\ cache_lock' = [cache_lock EXCEPT !.locked = FALSE]
    /\ UNCHANGED <<clock, waits, refreshes, failures, engineVars, salesVars, imageVars>>

\* line 49: get_items raises; the lock is released and the exception leaves
\* get_all_items_cached
PageFails ==
    /\ \E t \in Callers :
          /\ callers[t].pc = "fetching"
          /\ callers' = [callers EXCEPT ![t].pc = "raised", ![t].all_items = <<>>]
    /\ cache_lock' = [cache_lock EXCEPT !.locked = FALSE]
    /\ failures' = failures + 1
    /\ UNCHANGED <<all_items_cache, clock, waits, refreshes, empty_stores,
                   engineVars, salesVars, imageVars>>

\* every call of the burst has ended
BurstOver ==
    /\ \A t \in Callers : callers[t].pc \in {"idle", "returned", "raised"}
    /\ \E t \in Callers : callers[t].pc # "idle"

NewBurst ==
    /\ callers' = [t \in Callers |-> IdleCaller]
    /\ refreshes' = 0
    /\ failures' = 0
    /\ empty_stores' = 0
    /\ waits' = waits + 1

\* time passes until the next burst: a minute, or the whole TTL
Wait ==
    /\ BurstOver
    /\ waits < MaxWaits
    /\ \E minutes \in {1, ALL_ITEMS_CACHE_TTL} : clock' = clock + minutes
    /\ NewBurst
    /\ UNCHANGED <<all_items_cache, cache_lock, engineVars, salesVars, imageVars>>

\* invalidate_items_cache, lines 66-71, called between two bursts
InvalidateItemsCache ==
    /\ BurstOver
    /\ waits < MaxWaits
    /\ all_items_cache' = [items |-> NoItems, cached_at |-> NoTime]
    /\ NewBurst
    /\ UNCHANGED <<cache_lock, clock, engineVars, salesVars, imageVars>>

NextItems ==
    \/ CallGetAllItemsCached
    \/ LockGranted
    \/ PageArrives
    \/ LastPageArrives
    \/ PageFails
    \/ Wait
    \/ InvalidateItemsCache

SpecItems == Init /\ [][NextItems]_vars

(***************************************************************************)
(* Properties.  Those about a single analyzer or helper call are stated    *)
(* over the call recorded by SpecFn, those about a run over Spec.          *)
(***************************************************************************)
\* the recorded call returned a SKUAnalysis (either analyzer / the full one)
AnyAnalysis == call.fn \in {"analyze_sku", "analyze_sku_quick"} /\ call.ret.kind = "SKUAnalysis"
FullAnalysis == call.fn = "analyze_sku" /\ call.ret.kind = "SKUAnalysis"

\* the seasonal velocity of an entry, unrounded: total / 6, or sum / weeks
SeasonalVelocity(entry) ==
    IF entry.form = "total" THEN <<entry.qty[1], 6>>
    ELSE <<SumSeq(entry.qty), Max(Len(entry.qty), 1)>>

\* C1 (as stated): in every SKUAnalysis of analyze_sku, needs_reorder is true
\* iff the recorded weeks_of_cover is strictly below MIN_COVER_WEEKS and the
\* status is NORMAL.
C1_ReorderIffRecordedCoverBelowMin ==
    FullAnalysis =>
        (call.ret.needs_reorder <=>
            (call.ret.weeks_of_cover < MIN_COVER_WEEKS * 10 /\ call.ret.status = NORMAL))

\* C1 (amended): needs_reorder is true iff the status is NORMAL and the
\* unrounded cover effective_stock / velocity is strictly below
\* MIN_COVER_WEEKS; the recorded weeks_of_cover is that cover rounded to one
\* decimal, so with needs_reorder it is at most 5.0, and a NORMAL analysis
\* recorded below 5.0 has needs_reorder; no analysis of another status has it.
C1_ReorderIffExactCoverBelowMin ==
    FullAnalysis =>
        LET r == call.ret
            ly == call.arg.velocity_data_last_year
            v == IF r.sku \in DOMAIN ly THEN SeasonalVelocity(ly[r.sku]) ELSE <<0, 1>>
        IN  /\ r.needs_reorder <=>
                  /\ r.status = NORMAL
                  /\ v[1] > 0
                  /\ r.effective_stock * v[2] < MIN_COVER_WEEKS * v[1]
            /\ r.needs_reorder => r.weeks_of_cover <= MIN_COVER_WEEKS * 10
            /\ (r.status = NORMAL /\ r.weeks_of_cover < MIN_COVER_WEEKS * 10) => r.needs_reorder
            /\ r.status \in {ANOMALY, NEW_PRODUCT, NO_SALES} => ~r.needs_reorder

\* C1 witness: the boundary of the specification, effective_stock 100 at 20
\* units a week: cover exactly 5.0, status NORMAL, no reorder
C1_Witness ==
    /\ FullAnalysis
    /\ call.ret.effective_stock = 100
    /\ call.ret.weekly_velocity = 20 * 100
    /\ call.ret.weeks_of_cover = 5 * 10
    /\ call.ret.status = NORMAL
    /\ ~call.ret.needs_reorder

\* C2: a SKUAnalysis whose recorded weekly_velocity is 0 has the sentinel 999
\* as weeks_of_cover and needs_reorder false, and analyze_sku never divides
\* by a zero velocity (the cover it forms has a positive denominator).
C2_ZeroVelocityHasSentinelCover ==
    /\ AnyAnalysis =>
          (call.ret.weekly_velocity = 0 =>
              call.ret.weeks_of_cover = 999 * 10 /\ ~call.ret.needs_reorder)
    /\ FullAnalysis =>
          LET a == call.arg
              vf == velocity_facet(a.item.sku, a.velocity_data_last_year,
                                   a.velocity_data_90_day, a.first_sale_dates)
          IN  cover_of(call.ret.effective_stock, vf.weekly_velocity)[2] > 0

\* C2 witness: no velocity although the SKU is out of stock and has a
\* seasonal entry
C2_Witness ==
    /\ FullAnalysis
    /\ call.ret.sku \in DOMAIN call.arg.velocity_data_last_year
    /\ call.ret.weekly_velocity = 0
    /\ call.ret.effective_stock <= 0
    /\ call.ret.weeks_of_cover = 999 * 10
    /\ ~call.ret.needs_reorder

SkippedItemIds ==
    {all_items[i].item_id : i \in {j \in 1..Len(all_items) :
        all_items[j].status = "inactive" \/ all_items[j].sku = ""}}

ListedIds(order) ==
    {order.reorder_items[i].item_id : i \in 1..Len(order.reorder_items)}
    \cup {order.topup_candidates[i].item_id : i \in 1..Len(order.topup_candidates)}

\* C4: an item that is inactive or has no sku yields no SKUAnalysis in either
\* mode, so it is in no supplier's reorder_items or topup_candidates.
C4_SkippedItemsNeverListed ==
    /\ \A i \in 1..Len(analyses) : analyses[i].item_id \notin SkippedItemIds
    /\ \A s \in DOMAIN supplier_orders : ListedIds(supplier_orders[s]) \cap SkippedItemIds = {}

\* C4 witness: a finished run whose catalog held a skipped item beside a
\* listed one
C4_Witness ==
    /\ pc = "done"
    /\ SkippedItemIds # {}
    /\ \E s \in DOMAIN supplier_orders : ListedIds(supplier_orders[s]) # {}

\* the Anomaly Detector flags the seasonal data of the analyzed SKU
SeasonalAnomaly ==
    /\ FullAnalysis
    /\ call.ret.sku \in DOMAIN call.arg.velocity_data_last_year
    /\ detect_anomalies(call.arg.velocity_data_last_year[call.ret.sku])[1]

C6_AnomalyWeeksExact ==
    call.fn = "detect_anomalies" =>
        LET q == call.arg.weekly_sales.qty
            nonzero == {i \in 1..Len(q) : q[i] > 0}
            flagged == {i \in 1..Len(q) :
                           q[i] * Cardinality(nonzero) > ANOMALY_MULTIPLIER * SumSeq(q)}
            weeks == call.ret[2]
        IN  /\ {weeks[k] : k \in 1..Len(weeks)} = flagged
            /\ \A k \in 1..(Len(weeks) - 1) : weeks[k] < weeks[k + 1]
            /\ call.ret[1] = (flagged # {})
            /\ nonzero = {} => call.ret = <<FALSE, <<>>>>
            /\ q = ExampleSeries => call.ret = <<TRUE, <<4>>>>

\* C6 witness: the series of the specification, w4 flagged
C6_Witness ==
    /\ call.fn = "detect_anomalies"
    /\ call.arg.weekly_sales.qty = ExampleSeries
    /\ call.ret = <<TRUE, <<4>>>>

\* ceil(n / d) for d > 0
Ceil(n, d) == -FloorDiv(-n, d)

\* C7: calculate_suggested_qty returns max(0, ceil(velocity * 12 -
\* effective_stock)) for a positive velocity and 0 otherwise.
C7_SuggestedQtyIsCeiling ==
    call.fn = "calculate_suggested_qty" =>
        LET v == call.arg.weekly_velocity
            e == call.arg.effective_stock
        IN  call.ret = (IF v[1] <= 0 THEN 0
                        ELSE Max(0, Ceil(v[1] * call.arg.target_weeks - e * v[2], v[2])))

RECURSIVE SumOrderValue(_)
SumOrderValue(s) == IF s = <<>> THEN 0 ELSE Head(s).order_value + SumOrderValue(Tail(s))

ReorderOf(supplier) ==
    SelectSeq(analyses, LAMBDA a : a.supplier = supplier /\ a.needs_reorder)

\* C8: after group_by_supplier every supplier's reorder_items holds exactly
\* the analyses of that supplier with needs_reorder true, each once, and
\* reorder_total_eur is the sum of their order_value.
C8_ReorderItemsAndTotal ==
    pc = "done" =>
        /\ \A i \in 1..Len(analyses) : analyses[i].supplier \in DOMAIN supplier_orders
        /\ \A s \in DOMAIN supplier_orders :
              LET items == supplier_orders[s].reorder_items
                  expected == ReorderOf(s)
              IN  /\ Len(items) = Len(expected)
                  /\ {items[i] : i \in 1..Len(items)} = {expected[i] : i \in 1..Len(expected)}
                  /\ supplier_orders[s].reorder_total_eur = SumOrderValue(expected)

\* C8 witness: two reorder SKUs of the supplier worth 2000 and 1500: 3500
C8_Witness ==
    /\ pc = "done"
    /\ Raeder \in DOMAIN supplier_orders
    /\ LET items == supplier_orders[Raeder].reorder_items
       IN  /\ Len(items) = 2
           /\ {items[i].order_value : i \in 1..2} = {2000, 1500}
    /\ supplier_orders[Raeder].reorder_total_eur = 3500

\* C9: every SupplierOrder has gap_to_minimum = max(0, minimum_order_eur -
\* reorder_total_eur) and meets_minimum = (reorder_total_eur >=
\* minimum_order_eur); the gap is never negative and is 0 exactly when the
\* minimum is met.
C9_GapAndMeetsMinimum ==
    pc = "done" =>
        \A s \in DOMAIN supplier_orders :
            LET o == supplier_orders[s]
            IN  /\ o.minimum_order_eur = get_supplier_minimum(s)
                /\ o.gap_to_minimum = Max(0, o.minimum_order_eur - o.reorder_total_eur)
                /\ o.meets_minimum = (o.reorder_total_eur >= o.minimum_order_eur)
                /\ o.gap_to_minimum >= 0
                /\ o.meets_minimum <=> o.gap_to_minimum = 0

\* C9 witness: one supplier above its minimum (gap 0) beside one below it
C9_Witness ==
    /\ pc = "done"
    /\ \E s \in DOMAIN supplier_orders :
          /\ supplier_orders[s].reorder_total_eur > supplier_orders[s].minimum_order_eur
          /\ supplier_orders[s].gap_to_minimum = 0
          /\ supplier_orders[s].meets_minimum
    /\ \E s \in DOMAIN supplier_orders :
          /\ supplier_orders[s].reorder_total_eur > 0
          /\ supplier_orders[s].gap_to_minimum > 0
          /\ ~supplier_orders[s].meets_minimum

\* C10: an item whose analysis raises is omitted and the run goes on: no
\* exception of an analyzer leaves run_reorder_analysis, and the loop passes
\* over every item.
C10_ItemFailureTolerated ==
    /\ raised \in {"none", "catalog"}
    /\ pc \in {"done", "raised"} /\ raised # "catalog" => idx = Len(all_items)

\* C11: when the fetch of a sales window fails (the listing of the invoices
\* or the aggregation raises), the window holds no data for any SKU, no
\* exception of it leaves the run, and every analysis that relied on the
\* window has status NEW_PRODUCT or NO_SALES and needs_reorder false.
C11_WindowFailureYieldsNoData ==
    /\ "seasonal window failed" \in history =>
          /\ velocity_data_last_year = EmptyDict
          /\ \A i \in 1..Len(analyses) :
                /\ analyses[i].status \in {NEW_PRODUCT, NO_SALES}
                /\ ~analyses[i].needs_reorder
    /\ "90-day window failed" \in history =>
          /\ pc # "have_seasonal" => velocity_data_90_day = EmptyDict
          /\ \A i \in 1..Len(analyses) :
                analyses[i].sku \notin DOMAIN velocity_data_last_year =>
                    analyses[i].status = NO_SALES /\ ~analyses[i].needs_reorder
    /\ history \cap {"seasonal window failed", "90-day window failed"} # {} =>
          raised \in {"none", "TypeError"}

\* C12: run_reorder_analysis followed by format_analysis_report, repeated on
\* the same catalog, open purchase orders and sales data, gives the same
\* mapping and the same report except for generated_at: nothing the first
\* run left behind reaches the second.
C12_RepeatedRunSameReport ==
    /\ (Second /\ pc \in {"done", "reported"}) =>
          /\ supplier_orders = first_run.supplier_orders
          /\ analyses = first_run.analyses
    /\ (Second /\ pc = "reported") =>
          [report EXCEPT !.generated_at = first_run.report.generated_at] = first_run.report

\* C12 witness: the repetition has reported, later than the first run, a
\* supplier with a reorder item and one with a top-up candidate
C12_Witness ==
    /\ Second
    /\ pc = "reported"
    /\ report.generated_at # first_run.report.generated_at
    /\ \E i \in 1..Len(report.suppliers) : report.suppliers[i].reorder_items # <<>>
    /\ \E i \in 1..Len(report.suppliers) : report.suppliers[i].topup_candidates # <<>>

\* C13: in one run exactly one of the two paths executes: with quick_mode no
\* sales history is fetched, analyze_sku is never called and every analysis
\* has velocity_source "estimated"; without quick_mode analyze_sku_quick is
\* never called and no analysis has velocity_source "estimated".
C13_QuickAndFullExclusive ==
    /\ quick_mode =>
          /\ history \cap {"get_sales_velocity_data", "analyze_sku"} = {}
          /\ \A i \in 1..Len(analyses) : analyses[i].velocity_source = "estimated"
    /\ ~quick_mode =>
          /\ "analyze_sku_quick" \notin history
          /\ \A i \in 1..Len(analyses) : analyses[i].velocity_source # "estimated"
    /\ ~({"analyze_sku", "analyze_sku_quick"} \subseteq history)

\* C13 witness: a finished quick run that analyzed an item without any sales
\* fetch
C13_Witness ==
    /\ pc = "done"
    /\ quick_mode
    /\ history = {"analyze_sku_quick"}
    /\ analyses # <<>>

\* C14: in quick mode every analyzed item with effective_stock below 20,
\* oversold (negative) stock included, has needs_reorder true and
\* suggested_qty = 50 - effective_stock; every item with effective_stock of
\* 20 or more has needs_reorder false and suggested_qty 0.
C14_QuickThreshold ==
    (call.fn = "analyze_sku_quick" /\ call.ret.kind = "SKUAnalysis") =>
        LET r == call.ret
        IN  IF r.effective_stock < 20
            THEN r.needs_reorder /\ r.suggested_qty = 50 - r.effective_stock
            ELSE ~r.needs_reorder /\ r.suggested_qty = 0

\* the canonical names whose key occurs in the brand, case ignored
CanonicalOf(brand) ==
    LET lowered == Lower(brand)
    IN  {mappings[i][2] : i \in {j \in 1..Len(mappings) : IsSubstring(mappings[j][1], lowered)}}

\* C15: supplier resolution is total: every analysis has a non-empty
\* supplier, the canonical name when a mapping key occurs in its brand
\* (case ignored), else the brand itself, else "Unknown"; the spellings of
\* one brand resolve to one supplier; and after group_by_supplier every
\* analysis has the SupplierOrder of its supplier.
C15_SupplierResolutionTotal ==
    /\ \A i \in 1..Len(analyses) :
          LET a == analyses[i]
              canonical == CanonicalOf(a.brand)
          IN  /\ a.supplier # <<>>
              /\ canonical # {} => a.supplier \in canonical
              /\ (canonical = {} /\ a.brand # <<>>) => a.supplier = a.brand
              /\ a.brand = <<>> => a.supplier = Unknown
              /\ a.brand \in {Raeder, RAEDER_GMBH} => a.supplier = Raeder
    /\ pc \in {"done", "reported"} =>
          \A i \in 1..Len(analyses) :
              /\ analyses[i].supplier \in DOMAIN supplier_orders
              /\ supplier_orders[analyses[i].supplier].supplier_name = analyses[i].supplier

\* C15 witness: two spellings of one brand, both in the one bucket of
\* their supplier
C15_Witness ==
    /\ pc = "done"
    /\ \E i, j \in 1..Len(analyses) :
          /\ analyses[i].brand = Raeder
          /\ analyses[j].brand = RAEDER_GMBH
    /\ DOMAIN supplier_orders = {Raeder}

\* C16: every analysis among a supplier's topup_candidates, in full and in
\* quick mode, has status NORMAL, needs_reorder false and a weeks_of_cover of
\* at least 5 and below TOPUP_MAX_WEEKS; none is also among reorder_items.
C16_TopupCandidatesInBand ==
    pc \in {"done", "reported"} =>
        \A s \in DOMAIN supplier_orders :
            LET topups == supplier_orders[s].topup_candidates
                reorders == supplier_orders[s].reorder_items
            IN  \A i \in 1..Len(topups) :
                    /\ topups[i].status = NORMAL
                    /\ ~topups[i].needs_reorder
                    /\ topups[i].weeks_of_cover >= MIN_COVER_WEEKS * 10
                    /\ topups[i].weeks_of_cover < TOPUP_MAX_WEEKS * 10
                    /\ \A j \in 1..Len(reorders) : reorders[j].item_id # topups[i].item_id

\* a SupplierOrder with a reorder item or a top-up candidate
HasCandidate(order) == order.reorder_items # <<>> \/ order.topup_candidates # <<>>

\* C17 (as stated): the mapping returned by group_by_supplier and
\* run_reorder_analysis has an entry only for suppliers with at least one
\* reorder item or top-up candidate.
C17_NoEmptySupplierOrder ==
    pc \in {"done", "reported"} =>
        \A s \in DOMAIN supplier_orders : HasCandidate(supplier_orders[s])

\* C17 (amended): the returned mapping has an entry for every supplier of an
\* analyzed SKU, with or without candidates; the report of
\* format_analysis_report lists, each once, exactly the suppliers with at
\* least one reorder item or top-up candidate.
C17_ReportDropsEmptySuppliers ==
    /\ pc \in {"done", "reported"} =>
          DOMAIN supplier_orders = {analyses[i].supplier : i \in 1..Len(analyses)}
    /\ pc = "reported" =>
          /\ {report.suppliers[i].supplier : i \in 1..Len(report.suppliers)}
                = {s \in DOMAIN supplier_orders : HasCandidate(supplier_orders[s])}
          /\ \A i, j \in 1..Len(report.suppliers) :
                report.suppliers[i].supplier = report.suppliers[j].supplier => i = j

\* C17 witness: the mapping holds a supplier without candidates, which the
\* report drops, beside a supplier that the report lists
C17_Witness ==
    /\ pc = "reported"
    /\ \E s \in DOMAIN supplier_orders :
          /\ ~HasCandidate(supplier_orders[s])
          /\ \A i \in 1..Len(report.suppliers) : report.suppliers[i].supplier # s
    /\ report.suppliers # <<>>

\* the suppliers of the returned mapping that the report lists
ListedSuppliers == {s \in DOMAIN supplier_orders : HasCandidate(supplier_orders[s])}

\* the sum of the values of a function with a finite domain
RECURSIVE SumOf(_)
SumOf(f) ==
    IF DOMAIN f = {} THEN 0
    ELSE LET x == CHOOSE y \in DOMAIN f : TRUE
         IN  f[x] + SumOf([y \in DOMAIN f \ {x} |-> f[y]])

\* the parts of the summary on which statement and code agree
SummaryTotals ==
    /\ report.summary.supplier_count = Cardinality(ListedSuppliers)
    /\ report.summary.supplier_count = Len(report.suppliers)
    /\ report.summary.total_reorder_skus =
          SumOf([s \in ListedSuppliers |-> Len(supplier_orders[s].reorder_items)])
    /\ report.summary.total_reorder_value_eur =
          SumOf([s \in ListedSuppliers |-> supplier_orders[s].reorder_total_eur])

\* C18 (as stated): in the report suppliers_below_minimum is the number of
\* listed suppliers whose meets_minimum is false, supplier_count the number
\* of listed suppliers, total_reorder_skus the sum of their reorder counts
\* and total_reorder_value_eur the sum of their reorder totals.
C18_BelowMinimumCountsAllListed ==
    pc = "reported" =>
        /\ SummaryTotals
        /\ report.summary.suppliers_below_minimum =
              Cardinality({s \in ListedSuppliers : ~supplier_orders[s].meets_minimum})

\* C18 (amended): suppliers_below_minimum is the number of listed suppliers
\* whose meets_minimum is false and that have at least one reorder item; a
\* supplier listed for its top-up candidates alone is not counted.  The
\* other three figures are as stated.
C18_BelowMinimumCountsReorderSuppliers ==
    pc = "reported" =>
        /\ SummaryTotals
        /\ report.summary.suppliers_below_minimum =
              Cardinality({s \in ListedSuppliers :
                              /\ ~supplier_orders[s].meets_minimum
                              /\ supplier_orders[s].reorder_items # <<>>})

\* C18 witness: two listed suppliers below their minimum, one of them with
\* top-up candidates only: one is counted
C18_Witness ==
    /\ pc = "reported"
    /\ report.summary.supplier_count = 2
    /\ \A i \in 1..2 : ~report.suppliers[i].meets_minimum
    /\ \E i \in 1..2 : /\ report.suppliers[i].summary.reorder_count = 0
                       /\ report.suppliers[i].summary.topup_count > 0
    /\ report.summary.total_reorder_skus = 1
    /\ report.summary.suppliers_below_minimum = 1

\* round(x, 2) of the rational v gives r hundredths
RoundsTo(v, r) == r \in {Round(100 * v[1], v[2], TRUE), Round(100 * v[1], v[2], FALSE)}

\* the seasonal data of the analyzed SKU is flagged / the velocity of the
\* seasonal step (0 without entry or when flagged) / the fallback test
SeasonalStepVelocity ==
    LET ly == call.arg.velocity_data_last_year
    IN  IF call.ret.sku \in DOMAIN ly /\ ~SeasonalAnomaly
        THEN SeasonalVelocity(ly[call.ret.sku]) ELSE <<0, 1>>

FallsBack ==
    \/ is_new_product_of(call.ret.sku, call.arg.first_sale_dates)
    \/ SeasonalStepVelocity[1] = 0 /\ ~SeasonalAnomaly

RecentTotal ==
    LET r90 == call.arg.velocity_data_90_day
    IN  IF call.ret.sku \in DOMAIN r90 THEN SumSeq(r90[call.ret.sku].qty) ELSE 0

C20_NoNormalWithoutVelocity ==
    FullAnalysis =>
        /\ ~(call.ret.status = NORMAL /\ call.ret.weekly_velocity = 0)
        /\ (call.ret.weekly_velocity = 0 /\ call.ret.status \notin {ANOMALY, NEW_PRODUCT})
              => call.ret.status = NO_SALES
        /\ (/\ call.ret.sku \notin DOMAIN call.arg.velocity_data_last_year
            /\ call.ret.sku \notin DOMAIN call.arg.velocity_data_90_day)
              => call.ret.status = NO_SALES

\* C20 witness: a SKU without entry in either window analyzed as NO_SALES
C20_Witness ==
    /\ FullAnalysis
    /\ call.ret.sku \notin DOMAIN call.arg.velocity_data_last_year
    /\ call.ret.sku \notin DOMAIN call.arg.velocity_data_90_day
    /\ call.ret.weekly_velocity = 0
    /\ call.ret.status = NO_SALES

\* the purchase orders of a listing whose pages were all served, in order
ListedOrders(pages) == Flatten([i \in 1..Len(pages) |-> pages[i].purchaseorders])

\* the line items of a list of purchase orders
LinesOf(orders) == Flatten([i \in 1..Len(orders) |-> orders[i].line_items])

\* the SKUs named by a list of line items
SkusOf(lines) == {lines[i].sku : i \in 1..Len(lines)} \ {""}

\* ordered - received, summed over the lines of one SKU; with positive_only
\* a line that has received more than ordered counts as 0
PendingSum(lines, sku, positive_only) ==
    SumSeq([i \in 1..Len(lines) |->
               LET pending == lines[i].quantity - lines[i].quantity_received
               IN  IF lines[i].sku # sku THEN 0
                   ELSE IF positive_only THEN Max(pending, 0) ELSE pending])

PoCallServed ==
    /\ call.fn = "get_open_po_quantities"
    /\ \A i \in 1..Len(call.arg.pages) : call.arg.pages[i].ok

\* C21 (as stated): get_open_po_quantities returns, for each SKU, the sum of
\* (ordered - received) over all line items of all open / ordered / draft
\* purchase orders; a SKU is absent exactly when that sum is zero, and every
\* value present is a positive integer.
C21_PendingSumsAllOpenLines ==
    PoCallServed =>
        LET open == SelectSeq(ListedOrders(call.arg.pages),
                              LAMBDA po : po.status \in {"open", "ordered", "draft"})
            lines == LinesOf(open)
        IN  /\ DOMAIN call.ret \subseteq SkusOf(lines)
            /\ \A sku \in SkusOf(lines) :
                  /\ sku \in DOMAIN call.ret <=> PendingSum(lines, sku, FALSE) # 0
                  /\ sku \in DOMAIN call.ret =>
                        /\ call.ret[sku] = PendingSum(lines, sku, FALSE)
                        /\ call.ret[sku] \in Nat \ {0}

\* C21 (amended): the value of a SKU is the sum of the positive differences
\* (ordered - received) over the line items of the open / ordered / draft
\* purchase orders whose details could be fetched: a line that has received
\* more than was ordered counts as 0, and a purchase order whose detail
\* request failed is left out.  A SKU is absent exactly when that sum is
\* zero, and every value present is a positive integer.
C21_PendingSumsPositiveFetchedLines ==
    PoCallServed =>
        LET open == SelectSeq(ListedOrders(call.arg.pages),
                              LAMBDA po : /\ po.status \in {"open", "ordered", "draft"}
                                          /\ po.detail_ok)
            lines == LinesOf(open)
        IN  /\ DOMAIN call.ret \subseteq SkusOf(lines)
            /\ \A sku \in SkusOf(lines) :
                  /\ sku \in DOMAIN call.ret <=> PendingSum(lines, sku, TRUE) # 0
                  /\ sku \in DOMAIN call.ret =>
                        /\ call.ret[sku] = PendingSum(lines, sku, TRUE)
                        /\ call.ret[sku] \in Nat \ {0}

\* C21 witness: two open purchase orders for A, one of them with more
\* received than ordered, and A is returned with the pending stock of the other
C21_Witness ==
    /\ PoCallServed
    /\ LET lines == LinesOf(ListedOrders(call.arg.pages))
       IN  /\ \A i \in 1..Len(ListedOrders(call.arg.pages)) :
                 /\ ListedOrders(call.arg.pages)[i].status = "open"
                 /\ ListedOrders(call.arg.pages)[i].detail_ok
           /\ \E i, j \in 1..Len(lines) :
                 /\ lines[i].sku = "A" /\ lines[i].quantity < lines[i].quantity_received
                 /\ lines[j].sku = "A" /\ lines[j].quantity > lines[j].quantity_received
           /\ "A" \in DOMAIN call.ret
           /\ call.ret["A"] > PendingSum(lines, "A", FALSE)

\* what the call would return had it fetched the invoices one after the
\* other, in the order of the listing
SequentialTotals ==
    get_sales_velocity_data(
        [ok |-> listing.ok,
         invoices |-> [n \in 1..Len(IdsOf(listing.invoices)) |->
                          fetch_invoice_line_items(
                              listing.invoices[IdsOf(listing.invoices)[n]])]])

\* C22: while get_sales_velocity_data gathers the line items, at most
\* BatchSize fetches are in flight; the fetches in flight belong to one
\* batch and the results of all earlier batches have been collected; and the
\* returned totals are those of fetching the invoices one by one in listing
\* order, whatever the order in which the fetches finished.
C22_BoundedBatchesSameTotals ==
    /\ Cardinality(in_flight) <= BatchSize
    /\ in_flight # {} =>
          /\ \A k \in in_flight : batch_at < k /\ k <= batch_at + BatchSize
          /\ all_line_items =
                Flatten([n \in 1..batch_at |->
                            fetch_invoice_line_items(listing.invoices[invoice_ids[n]])])
    /\ sales_pc = "returned" => velocity_data = SequentialTotals

\* C22 witness: in the second batch a later fetch has finished before an
\* earlier one of the same batch
C22_Witness ==
    /\ sales_pc = "gathering"
    /\ batch_at > 0
    /\ \E k \in in_flight : \E j \in DOMAIN batch_results : j > k

\* C23: when the data gathering of a full-mode run fails (a timeout is such
\* a failure), the run degrades to quick mode: the analyses it returns are
\* those of the stock-threshold rule, with velocity_source "estimated".
C23_GatherFailureDegradesToQuick ==
    (/\ pc \in {"done", "reported"}
     /\ history \cap {"seasonal window failed", "90-day window failed"} # {})
        => /\ "analyze_sku" \notin history
           /\ \A n \in 1..Len(analyses) : analyses[n].velocity_source = "estimated"

\* C24: a SKUAnalysis is immutable once the analyzer has returned it: the
\* step of group_by_supplier and the step of format_analysis_report leave
\* the list of analyses, every field of every analysis, as it was.
C24_AnalysesImmutable ==
    [][(pc \in {"analyzing", "done"} /\ pc' \in {"done", "reported"})
          => analyses' = analyses]_vars

\* the number of times an id stands in the order list
Occurrences(order, item_id) ==
    Cardinality({k \in 1..Len(order) : order[k] = item_id})

\* C25: after any interleaving of concurrent get_item_image calls the cache
\* holds at most ImageCacheMax entries and the order list names each cached
\* item_id exactly once.
C25_ImageCacheBoundedAndOrdered ==
    /\ Cardinality(image_cache) <= ImageCacheMax
    /\ \A item_id \in image_cache : Occurrences(image_cache_order, item_id) = 1

PositiveWeeks(weekly_sales) ==
    {i \in 1..Len(weekly_sales.qty) : weekly_sales.qty[i] > 0}

C28_SuggestedQtyReachesTarget ==
    (FullAnalysis /\ call.ret.needs_reorder) =>
        LET a == call.arg
            v == velocity_facet(call.ret.sku, a.velocity_data_last_year,
                                a.velocity_data_90_day, a.first_sale_dates).weekly_velocity
        IN  /\ call.ret.suggested_qty >= 1
            /\ (call.ret.effective_stock + call.ret.suggested_qty) * v[2] >= 12 * v[1]

\* C29: when a page request of the open purchase orders fails,
\* get_open_po_quantities returns the empty mapping, no exception of it
\* leaves run_reorder_analysis, and every analysis of the run has
\* open_po_qty = 0 and effective_stock = available_stock, also for a SKU
\* that has stock on order.
C29_PoFailureYieldsNoOpenStock ==
    "open POs failed" \in history =>
        /\ po_quantities = EmptyDict
        /\ idx = 0 => raised = "none"
        /\ \A k \in 1..Len(analyses) :
              /\ analyses[k].open_po_qty = 0
              /\ analyses[k].effective_stock = analyses[k].available_stock

\* C29 witness: the listing fails on its second page after an order for B on
\* the first, and the run ends with a report and an analysis of B without
\* stock on order
C29_Witness ==
    /\ "open POs failed" \in history
    /\ pc = "reported"
    /\ \E k \in 1..Len(analyses) :
          /\ analyses[k].sku = "B"
          /\ analyses[k].open_po_qty = 0
          /\ analyses[k].effective_stock = analyses[k].available_stock

\* the SKUs that the entry of a supplier in the report names
ReportedSkus(entry) ==
    {entry.reorder_items[k].sku : k \in 1..Len(entry.reorder_items)}
    \cup {entry.topup_candidates[k].sku : k \in 1..Len(entry.topup_candidates)}

\* C30: in every report built from the output of group_by_supplier, the
\* anomaly_count and the new_product_count of each supplier are 0, every
\* reorder item has status NORMAL, and no SKU analyzed with status ANOMALY,
\* NEW_PRODUCT or NO_SALES is named anywhere in the report.
C30_ReportHoldsOnlyNormal ==
    pc = "reported" =>
        \A i \in 1..Len(report.suppliers) :
            LET entry == report.suppliers[i]
            IN  /\ entry.summary.anomaly_count = 0
                /\ entry.summary.new_product_count = 0
                /\ \A k \in 1..Len(entry.reorder_items) :
                      entry.reorder_items[k].status = NORMAL
                /\ \A k \in 1..Len(analyses) :
                      analyses[k].status # NORMAL =>
                          analyses[k].sku \notin ReportedSkus(entry)

\* C30 witness: a run that analyzed a new product short of stock and reports
\* another SKU, but not the new product
C30_Witness ==
    /\ pc = "reported"
    /\ report.suppliers # <<>>
    /\ \E k \in 1..Len(analyses) :
          /\ analyses[k].status = NEW_PRODUCT
          /\ analyses[k].weeks_of_cover < 10 * MIN_COVER_WEEKS
          /\ \A i \in 1..Len(report.suppliers) :
                analyses[k].sku \notin ReportedSkus(report.suppliers[i])

====
